------------------------- MODULE SessionQueueProofs -------------------------
(***************************************************************************)
(* Safety of the server's client queue for every set of clients and of      *)
(* session threads, and the refinement of the line it promises.             *)
(***************************************************************************)
EXTENDS SessionQueue, SequenceTheorems, FiniteSetTheorems, WellFoundedInduction, TLAPS

-----------------------------------------------------------------------------
(* The linked list as a sequence.                                            *)

(* The nodes of the list are those of the sequence q, in its order.          *)
Chain(q) ==
  /\ q \in Seq(Clients) /\ Len(q) = num_clients
  /\ \A i, j \in 1 .. Len(q) : i # j => q[i] # q[j]
  /\ \A i \in 1 .. Len(q) - 1 : next[q[i]] = q[i + 1]
  /\ q = <<>> => head = NULL
  /\ q # <<>> => head = q[1] /\ tail = q[Len(q)] /\ next[tail] = NULL

LEMMA SmallestPosition ==
  ASSUME NEW S \in SUBSET Nat, S # {}
  PROVE  \E p \in S : \A q \in S : p <= q
<1>1. PICK p \in S : \A q \in S : ~(<<q, p>> \in OpToRel(<, Nat))
  BY NatLessThanWellFounded, WFMin
<1>2. \A q, r \in Nat : <<q, r>> \in OpToRel(<, Nat) <=> q < r
  BY DEF OpToRel
<1>3. \A q \in S : ~(q < p)
  BY <1>1, <1>2
<1>4. \A q \in S : p <= q
  BY <1>3
<1> QED
  BY <1>4

(* Following `next` from `head` visits exactly the sequence.                 *)
LEMMA ViewOfChain == \A q : Chain(q) => QueueView = q
<1> SUFFICES ASSUME NEW q, Chain(q) PROVE QueueView = q
  OBVIOUS
<1> DEFINE n == num_clients
           Follows(f) == f = [i \in 0 .. n |-> IF i <= 1 THEN head ELSE next[f[i - 1]]]
           node == CHOOSE f : Follows(f)
<1>1. /\ q \in Seq(Clients) /\ n \in Nat /\ Len(q) = n
      /\ q \in [1 .. n -> Clients]
  BY LenProperties DEF Chain
<1>2. n # 0 => q # <<>> /\ head = q[1]
  BY <1>1, EmptySeq DEF Chain
<1>3. \A i \in 1 .. n - 1 : next[q[i]] = q[i + 1]
  BY <1>1 DEF Chain
<1>4. QueueView = [i \in 1 .. n |-> node[i]]
  BY DEF QueueView
<1> HIDE DEF n
<1>5. \E f : Follows(f)
  <2> DEFINE g == [i \in 0 .. n |-> IF i <= 1 THEN head ELSE q[i]]
  <2>1. \A i \in 0 .. n : g[i] = IF i <= 1 THEN head ELSE next[g[i - 1]]
    <3> SUFFICES ASSUME NEW i \in 0 .. n
                 PROVE  g[i] = IF i <= 1 THEN head ELSE next[g[i - 1]]
      OBVIOUS
    <3>0. CASE i <= 1
      BY <3>0
    <3> SUFFICES ASSUME i > 1 PROVE g[i] = next[g[i - 1]]
      BY <1>1, <3>0
    <3>1. i - 1 \in 1 .. n - 1 /\ i - 1 \in 0 .. n
      BY <1>1
    <3>2. g[i - 1] = q[i - 1]
      BY <1>1, <1>2, <3>1
    <3> QED
      BY <1>1, <1>3, <3>1, <3>2
  <2>2. Follows(g)
    BY <2>1
  <2> QED
    BY <2>2
<1>6. Follows(node)
  BY <1>5
<1> HIDE DEF node
<1>7. \A i \in 0 .. n : node[i] = IF i <= 1 THEN head ELSE next[node[i - 1]]
  BY <1>6
<1> HIDE DEF Follows
<1>8. \A i \in 1 .. n : node[i] = q[i]
  <2> DEFINE wrong == {i \in 1 .. n : node[i] # q[i]}
  <2> SUFFICES ASSUME wrong # {} PROVE FALSE
    OBVIOUS
  <2>1. wrong \in SUBSET Nat
    BY <1>1
  <2>2. PICK i \in wrong : \A j \in wrong : i <= j
    BY <2>1, SmallestPosition
  <2>3. i \in 1 .. n /\ node[i] # q[i]
    OBVIOUS
  <2>4. i # 1
    BY <1>1, <1>2, <1>7, <2>3
  <2>5. i - 1 \in 1 .. n - 1 /\ i - 1 \notin wrong
    BY <1>1, <2>2, <2>3, <2>4
  <2>6. node[i - 1] = q[i - 1]
    BY <1>1, <2>5
  <2>7. node[i] = next[node[i - 1]]
    BY <1>1, <1>7, <2>3, <2>4
  <2>8. next[q[i - 1]] = q[i]
    <3>1. i - 1 + 1 = i
      BY <1>1, <2>3
    <3> QED
      BY <1>3, <2>5, <3>1
  <2> QED
    BY <2>3, <2>6, <2>7, <2>8
<1>9. q = [i \in 1 .. n |-> q[i]]
  BY <1>1
<1> QED
  BY <1>4, <1>8, <1>9

-----------------------------------------------------------------------------
(* Types. *)

Typed == TypeOK /\ (pc = "add" => request \in Clients)

(* The list has a head when the counter says so.                             *)
HeadIsThere == num_clients # 0 => head \in Clients

LEMMA StartTyped == Init => Typed
<1> SUFFICES ASSUME Init PROVE Typed
  OBVIOUS
<1>1. pipe \in Seq(Clients \cup Strays)
  BY EmptySeq DEF Init
<1>2. /\ next \in [Clients -> Clients \cup {NULL}]
      /\ wpc \in [Workers -> {"lock_clients", "wake", "test", "wait", "sleep", "session"}]
      /\ client \in [Workers -> Clients \cup {NULL}]
  BY DEF Init
<1>3. /\ num_clients \in Nat /\ signals \in 0 .. MaxSignals /\ spurious \in 0 .. MaxSpurious
  BY BoundAssumption DEF Init
<1>4. /\ unsent \subseteq Clients \cup Strays
      /\ head \in Clients \cup {NULL} /\ tail \in Clients \cup {NULL}
      /\ clients_mutex \in Workers \cup {NULL}
      /\ sleeping \subseteq Workers
      /\ pc = "top" /\ request \in Clients \cup {NULL} /\ usr1_signalled \in BOOLEAN
  BY DEF Init
<1> QED
  BY <1>1, <1>2, <1>3, <1>4 DEF Typed, TypeOK

LEMMA PipeTyped ==
  ASSUME Typed, pipe # <<>>
  PROVE  /\ Head(pipe) \in Clients \cup Strays /\ Tail(pipe) \in Seq(Clients \cup Strays)
         /\ Len(pipe) \in Nat /\ Len(Tail(pipe)) = Len(pipe) - 1
         /\ Head(pipe) = pipe[1] /\ 1 \in 1 .. Len(pipe)
         /\ \A i \in 1 .. Len(Tail(pipe)) : Tail(pipe)[i] = pipe[i + 1]
<1>1. pipe \in Seq(Clients \cup Strays)
  BY DEF Typed, TypeOK
<1>2. Len(pipe) \in Nat /\ Len(pipe) # 0
  BY <1>1, EmptySeq, LenProperties
<1> QED
  BY <1>1, <1>2, HeadTailProperties

LEMMA StepTyped ==
  ASSUME Typed, HeadIsThere, [Next]_vars
  PROVE  Typed'
<1> USE DEF Typed, TypeOK, list, sync, usr1, worker
<1>1. ASSUME NEW m \in Clients \cup Strays, Connect(m)
      PROVE  Typed'
  <2>1. pipe' \in Seq(Clients \cup Strays)
    BY <1>1, AppendProperties DEF Connect
  <2> QED
    BY <1>1, <2>1 DEF Connect
<1>2. CASE Signal
  BY <1>2, BoundAssumption DEF Signal
<1>3. CASE MainTop \/ MainShow \/ MainReset \/ MainRoom \/ MainBlock \/ MainNoMemory
  BY <1>3 DEF MainTop, MainShow, MainReset, MainRoom, MainBlock, MainNoMemory
<1>4. CASE MainRead
  <2>1. pipe' \in Seq(Clients \cup Strays)
    BY <1>4, PipeTyped DEF MainRead
  <2> QED
    BY <1>4, <2>1 DEF MainRead
<1>5. CASE MainAdd
  BY <1>5 DEF MainAdd, addClient
<1>6. CASE MainSignal
  BY <1>6 DEF MainSignal
<1>7. ASSUME NEW w \in Workers, LockClients(w) \/ FindsNoClient(w) \/ Wait(w) \/ EndSession(w)
      PROVE  Typed'
  BY <1>7 DEF LockClients, FindsNoClient, Wait, EndSession, WGoto
<1>8. ASSUME NEW w \in Workers, TakeClient(w)
      PROVE  Typed'
  BY <1>8 DEF TakeClient, popClient, WGoto, HeadIsThere
<1>9. ASSUME NEW w \in Workers, SpuriousWakeup(w)
      PROVE  Typed'
  BY <1>9, BoundAssumption DEF SpuriousWakeup, WGoto
<1>10. CASE UNCHANGED vars
  BY <1>10 DEF vars
<1> QED
  BY <1>1, <1>2, <1>3, <1>4, <1>5, <1>6, <1>7, <1>8, <1>9, <1>10
     DEF Next, MainStep, WorkerStep

-----------------------------------------------------------------------------
(* The lock and the condition variable.                                      *)

(* A thread owns clients_mutex from its test of num_clients to its wait or   *)
(* its session, and has a client only in a session.                          *)
LockInv ==
  \A w \in Workers :
    /\ clients_mutex = w <=> wpc[w] \in {"test", "wait"}
    /\ w \in sleeping <=> wpc[w] = "sleep"
    /\ wpc[w] # "session" => client[w] = NULL

LEMMA StartLocked == Init => LockInv
  BY NameAssumption DEF Init, LockInv

LEMMA StepLocked ==
  ASSUME Typed, LockInv, [Next]_vars
  PROVE  LockInv'
<1> USE NameAssumption DEF Typed, TypeOK, LockInv, list, sync, usr1, worker
<1>1. ASSUME NEW m \in Clients \cup Strays, Connect(m)
      PROVE  LockInv'
  BY <1>1 DEF Connect
<1>2. CASE Signal
  BY <1>2 DEF Signal
<1>3. CASE MainTop \/ MainShow \/ MainReset \/ MainRoom \/ MainBlock \/ MainNoMemory
  BY <1>3 DEF MainTop, MainShow, MainReset, MainRoom, MainBlock, MainNoMemory
<1>4. CASE MainRead
  BY <1>4 DEF MainRead
<1>5. CASE MainAdd
  BY <1>5 DEF MainAdd, addClient
<1>6. CASE MainSignal
  BY <1>6 DEF MainSignal
<1>7. ASSUME NEW w \in Workers, WorkerStep(w)
      PROVE  LockInv'
  <2>1. CASE LockClients(w)
    BY <2>1 DEF LockClients, WGoto
  <2>2. CASE FindsNoClient(w)
    BY <2>2 DEF FindsNoClient, WGoto
  <2>3. CASE Wait(w)
    BY <2>3 DEF Wait, WGoto
  <2>4. CASE TakeClient(w)
    BY <2>4 DEF TakeClient, popClient, WGoto
  <2>5. CASE EndSession(w)
    BY <2>5 DEF EndSession, WGoto
  <2> QED
    BY <1>7, <2>1, <2>2, <2>3, <2>4, <2>5 DEF WorkerStep
<1>8. ASSUME NEW w \in Workers, SpuriousWakeup(w)
      PROVE  LockInv'
  BY <1>8 DEF SpuriousWakeup, WGoto
<1>9. CASE UNCHANGED vars
  BY <1>9 DEF vars
<1> QED
  BY <1>1, <1>2, <1>3, <1>4, <1>5, <1>6, <1>7, <1>8, <1>9 DEF Next, MainStep

-----------------------------------------------------------------------------
(* The list is a chain of clients, each in one place.                        *)

(* A message that was sent and that main has read.                           *)
Left(c) == c \notin unsent /\ \A i \in 1 .. Len(pipe) : pipe[i] # c

(* Each client is in one place at most: it has not written yet, its message  *)
(* is in the pipe once, main is about to add it, it is in the list once, or  *)
(* a session thread has it.                                                  *)
PlacesApart(q) ==
  /\ \A i, j \in 1 .. Len(pipe) : i # j => pipe[i] # pipe[j]
  /\ \A i \in 1 .. Len(pipe) : pipe[i] \notin unsent
  /\ pc = "add" => /\ Left(request)
                   /\ \A i \in 1 .. Len(q) : q[i] # request
                   /\ \A w \in Workers : client[w] # request
  /\ \A i \in 1 .. Len(q) : Left(q[i]) /\ \A w \in Workers : client[w] # q[i]
  /\ \A w \in Workers : client[w] # NULL => Left(client[w])

QueueInv == \E q : Chain(q) /\ PlacesApart(q)

(* A step of the promised line from q to r.                                  *)
LineStep(q, r) ==
  \/ r = q /\ client' = client
  \/ \E c \in Clients :
       /\ \A i \in 1 .. Len(q) : q[i] # c
       /\ \A w \in Workers : client[w] # c
       /\ r = Append(q, c) /\ client' = client
  \/ \E w \in Workers :
       /\ q # <<>> /\ client[w] = NULL
       /\ client' = [client EXCEPT ![w] = Head(q)] /\ r = Tail(q)
  \/ \E w \in Workers : r = q /\ client' = [client EXCEPT ![w] = NULL]

LEMMA ChainHasHead ==
  ASSUME NEW q, Chain(q), num_clients # 0
  PROVE  /\ q # <<>> /\ Len(q) \in Nat /\ 1 \in 1 .. Len(q) /\ head = q[1] /\ head \in Clients
         /\ head = Head(q) /\ Tail(q) \in Seq(Clients) /\ Len(Tail(q)) = Len(q) - 1
         /\ \A i \in 1 .. Len(Tail(q)) : Tail(q)[i] = q[i + 1]
<1>1. q \in Seq(Clients) /\ Len(q) = num_clients /\ Len(q) \in Nat
  BY LenProperties DEF Chain
<1>2. q # <<>>
  BY <1>1, EmptySeq
<1>3. head = q[1]
  BY <1>2 DEF Chain
<1> QED
  BY <1>1, <1>2, <1>3, HeadTailProperties, ElementOfSeq

LEMMA StartQueue == Init => QueueInv
<1> SUFFICES ASSUME Init PROVE Chain(<<>>) /\ PlacesApart(<<>>)
  BY DEF QueueInv
<1>1. <<>> \in Seq(Clients) /\ Len(<<>>) = 0
  BY EmptySeq
<1> QED
  BY <1>1 DEF Init, Chain, PlacesApart

(* A step that touches neither the list nor the pipe keeps the chain.        *)
LEMMA ChainKept ==
  ASSUME NEW q, Chain(q), UNCHANGED list
  PROVE  Chain(q)'
BY DEF Chain, list

(* addClient (lines 554-567): the client goes to the end of the chain.       *)
LEMMA AddKeepsChain ==
  ASSUME Typed, NEW q, Chain(q), NEW c \in Clients, addClient(c),
         \A i \in 1 .. Len(q) : q[i] # c
  PROVE  Chain(Append(q, c))'
<1> DEFINE r == Append(q, c)
<1>1. q \in Seq(Clients) /\ Len(q) = num_clients /\ Len(q) \in Nat
  BY LenProperties DEF Chain
<1>2. /\ r \in Seq(Clients) /\ Len(r) = Len(q) + 1 /\ r[Len(q) + 1] = c
      /\ \A i \in 1 .. Len(q) : r[i] = q[i] /\ q[i] \in Clients
      /\ r # <<>>
  BY <1>1, AppendProperties, ElementOfSeq, EmptySeq
<1> HIDE DEF r
<1>3. Len(r) = num_clients'
  BY <1>1, <1>2 DEF addClient
<1>4. \A i, j \in 1 .. Len(r) : i # j => r[i] # r[j]
  BY <1>1, <1>2 DEF Chain
<1>5. \A i \in 1 .. Len(r) - 1 : next'[r[i]] = r[i + 1]
  <2> SUFFICES ASSUME NEW i \in 1 .. Len(r) - 1 PROVE next'[r[i]] = r[i + 1]
    OBVIOUS
  <2>0. i \in 1 .. Len(q) /\ r[i] = q[i] /\ q[i] \in Clients /\ q[i] # c /\ q # <<>>
    BY <1>1, <1>2, EmptySeq
  <2>1. /\ next' = [next EXCEPT ![c] = NULL, ![tail] = c]
        /\ tail = q[Len(q)] /\ tail \in Clients
    <3>1. head = q[1] /\ tail = q[Len(q)] /\ q[1] \in Clients /\ q[Len(q)] \in Clients
      BY <1>1, <1>2, <2>0 DEF Chain
    <3>2. head # NULL
      BY <3>1, NameAssumption
    <3> QED
      BY <3>1, <3>2 DEF addClient
  <2>2. CASE i = Len(q)
    BY <1>2, <2>0, <2>1, <2>2 DEF Typed, TypeOK
  <2>3. CASE i # Len(q)
    <3>1. q[i] # tail
      BY <1>1, <2>0, <2>1, <2>3 DEF Chain
    <3>2. next'[q[i]] = next[q[i]]
      BY <2>0, <2>1, <3>1 DEF Typed, TypeOK
    <3>3. i \in 1 .. Len(q) - 1 /\ i + 1 \in 1 .. Len(q)
      BY <1>1, <2>0, <2>3
    <3>4. next[q[i]] = q[i + 1]
      BY <3>3 DEF Chain
    <3> QED
      BY <1>2, <2>0, <3>2, <3>3, <3>4
  <2> QED
    BY <2>2, <2>3
<1>6. head' = r[1] /\ tail' = r[Len(r)] /\ next'[tail'] = NULL
  <2>1. CASE q = <<>>
    <3>1. head = NULL /\ Len(q) = 0
      BY <2>1, EmptySeq DEF Chain
    <3> QED
      BY <1>2, <3>1 DEF addClient, Typed, TypeOK
  <2>2. CASE q # <<>>
    <3>0. Len(q) \in 1 .. Len(q) /\ 1 \in 1 .. Len(q)
      BY <1>1, <2>2, EmptySeq
    <3>1. head = q[1] /\ tail = q[Len(q)] /\ q[1] \in Clients /\ tail \in Clients /\ tail # c
      BY <1>2, <2>2, <3>0 DEF Chain
    <3>2. head # NULL
      BY <3>1, NameAssumption
    <3>3. head' = head /\ tail' = c /\ next' = [next EXCEPT ![c] = NULL, ![tail] = c]
      BY <3>2 DEF addClient
    <3> QED
      BY <1>1, <1>2, <3>0, <3>1, <3>3 DEF Typed, TypeOK
  <2> QED
    BY <2>1, <2>2
<1> QED
  BY <1>2, <1>3, <1>4, <1>5, <1>6 DEF Chain

(* popClient (lines 569-577): the client at the front leaves the chain.      *)
LEMMA PopKeepsChain ==
  ASSUME Typed, NEW q, Chain(q), num_clients # 0, NEW w \in Workers, popClient(w)
  PROVE  Chain(Tail(q))'
<1> DEFINE r == Tail(q)
<1>1. q \in Seq(Clients) /\ Len(q) = num_clients
  BY DEF Chain
<1>2. /\ q # <<>> /\ Len(q) \in Nat /\ 1 \in 1 .. Len(q) /\ head = q[1]
      /\ r \in Seq(Clients) /\ Len(r) = Len(q) - 1
      /\ \A i \in 1 .. Len(r) : r[i] = q[i + 1]
  BY ChainHasHead
<1> SUFFICES Chain(r)'
  OBVIOUS
<1> HIDE DEF r
<1>3. head' = next[head] /\ num_clients' = num_clients - 1 /\ tail' = tail /\ next' = next
  BY DEF popClient
<1>4. \A i, j \in 1 .. Len(r) : i # j => r[i] # r[j]
  BY <1>2 DEF Chain
<1>5. \A i \in 1 .. Len(r) - 1 : next[r[i]] = r[i + 1]
  <2> SUFFICES ASSUME NEW i \in 1 .. Len(r) - 1 PROVE next[r[i]] = r[i + 1]
    OBVIOUS
  <2>1. i + 1 \in 1 .. Len(q) - 1 /\ r[i] = q[i + 1] /\ r[i + 1] = q[i + 1 + 1]
    BY <1>2
  <2> QED
    BY <2>1 DEF Chain
<1>6. CASE r = <<>>
  <2>1. Len(q) = 1
    BY <1>2, <1>6, EmptySeq
  <2>2. head' = NULL
    BY <1>2, <1>3, <2>1 DEF Chain
  <2> QED
    BY <1>1, <1>2, <1>3, <1>4, <1>5, <1>6, <2>2 DEF Chain
<1>7. CASE r # <<>>
  <2>1. Len(r) \in Nat /\ Len(r) >= 1
    BY <1>2, <1>7, EmptySeq, LenProperties
  <2>2. 1 \in 1 .. Len(q) - 1 /\ r[1] = q[1 + 1] /\ r[Len(r)] = q[Len(q)]
    BY <1>2, <2>1
  <2>3. head' = r[1]
    BY <1>2, <1>3, <2>2 DEF Chain
  <2>4. tail' = r[Len(r)] /\ next'[tail'] = NULL
    BY <1>2, <1>3, <2>2 DEF Chain
  <2> QED
    BY <1>1, <1>2, <1>3, <1>4, <1>5, <1>7, <2>3, <2>4 DEF Chain
<1> QED
  BY <1>6, <1>7

(* Every step moves at most one client to its next place, and seen through   *)
(* the chain it is a step of the line or none at all.                        *)
LEMMA StepQueue ==
  ASSUME Typed, LockInv, [Next]_vars, NEW q, Chain(q), PlacesApart(q)
  PROVE  \E r : Chain(r)' /\ PlacesApart(r)' /\ LineStep(q, r)
<1> USE DEF list, sync, usr1, worker
<1>0. /\ q \in Seq(Clients) /\ Len(q) \in Nat
      /\ \A i \in 1 .. Len(q) : q[i] \in Clients
      /\ pipe \in Seq(Clients \cup Strays) /\ Len(pipe) \in Nat
  BY LenProperties, ElementOfSeq DEF Chain, Typed, TypeOK
(* Neither the list nor a client changes its place.                          *)
<1>1. ASSUME UNCHANGED <<list, client, unsent, pipe>>, pc' = "add" => FALSE
      PROVE  Chain(q)' /\ PlacesApart(q)' /\ LineStep(q, q)
  <2>1. Chain(q)'
    BY <1>1, ChainKept
  <2>2. LineStep(q, q)
    BY <1>1 DEF LineStep
  <2>3. PlacesApart(q)'
    BY <1>1 DEF PlacesApart, Left
  <2> QED
    BY <2>1, <2>2, <2>3
<1>2. ASSUME UNCHANGED <<list, client, unsent, pipe, pc, request>>
      PROVE  Chain(q)' /\ PlacesApart(q)' /\ LineStep(q, q)
  <2>1. Chain(q)'
    BY <1>2, ChainKept
  <2>2. LineStep(q, q)
    BY <1>2 DEF LineStep
  <2>3. PlacesApart(q)'
    BY <1>2 DEF PlacesApart, Left
  <2> QED
    BY <2>1, <2>2, <2>3
<1>3. ASSUME NEW m \in Clients \cup Strays, Connect(m)
      PROVE  Chain(q)' /\ PlacesApart(q)' /\ LineStep(q, q)
  <2>1. Chain(q)' /\ LineStep(q, q)
    BY <1>3, ChainKept DEF Connect, LineStep
  <2>2. /\ m \in unsent /\ unsent' = unsent \ {m}
        /\ Len(pipe') = Len(pipe) + 1 /\ pipe'[Len(pipe) + 1] = m
        /\ \A i \in 1 .. Len(pipe) : pipe'[i] = pipe[i]
    BY <1>0, <1>3, AppendProperties DEF Connect
  <2>3. \A c : Left(c) => Left(c)'
    BY <1>0, <2>2 DEF Left
  <2>4. /\ \A i, j \in 1 .. Len(pipe') : i # j => pipe'[i] # pipe'[j]
        /\ \A i \in 1 .. Len(pipe') : pipe'[i] \notin unsent'
    BY <1>0, <2>2 DEF PlacesApart
  <2>5. pc' = pc /\ request' = request /\ client' = client
    BY <1>3 DEF Connect
  <2> QED
    BY <2>1, <2>3, <2>4, <2>5 DEF PlacesApart
<1>4. CASE MainRead
  <2>0. PICK m : m = Head(pipe)
    OBVIOUS
  <2>1. /\ Len(pipe') = Len(pipe) - 1 /\ m = pipe[1] /\ 1 \in 1 .. Len(pipe)
        /\ \A i \in 1 .. Len(pipe') : pipe'[i] = pipe[i + 1]
        /\ unsent' = unsent /\ client' = client
    BY <1>4, <2>0, PipeTyped DEF MainRead
  <2>2. Chain(q)' /\ LineStep(q, q)
    BY <1>4, ChainKept DEF MainRead, LineStep
  <2>3. \A c : Left(c) => Left(c)'
    BY <1>0, <2>1 DEF Left
  <2>4. /\ \A i, j \in 1 .. Len(pipe') : i # j => pipe'[i] # pipe'[j]
        /\ \A i \in 1 .. Len(pipe') : pipe'[i] \notin unsent'
    <3>1. \A i \in 1 .. Len(pipe') : i + 1 \in 1 .. Len(pipe) /\ pipe'[i] = pipe[i + 1]
      BY <1>0, <2>1
    <3>2. \A i, j \in 1 .. Len(pipe') : i # j => i + 1 # j + 1
      BY <1>0, <2>1
    <3> QED
      BY <2>1, <3>1, <3>2 DEF PlacesApart
  <2>5. Left(m)'
    BY <1>0, <2>1 DEF Left, PlacesApart
  <2>6. /\ \A i \in 1 .. Len(q) : q[i] # m
        /\ m # NULL => \A w \in Workers : client[w] # m
    BY <2>1 DEF PlacesApart, Left
  <2>7. pc' = "add" => request' = m /\ m # NULL
    BY <1>4, <2>0, NameAssumption DEF MainRead
  <2>8. PlacesApart(q)'
    BY <2>1, <2>3, <2>4, <2>5, <2>6, <2>7 DEF PlacesApart
  <2> QED
    BY <2>2, <2>8
<1>5. CASE MainAdd
  <2>0. PICK c : c = request
    OBVIOUS
  <2>1. /\ c \in Clients /\ addClient(c) /\ pc = "add" /\ pc' = "signal"
        /\ unsent' = unsent /\ pipe' = pipe /\ client' = client
    BY <1>5, <2>0 DEF MainAdd, Typed
  <2>2. /\ \A i \in 1 .. Len(q) : q[i] # c
        /\ \A w \in Workers : client[w] # c
        /\ Left(c)
    BY <2>0, <2>1 DEF PlacesApart
  <2>3. Chain(Append(q, c))'
    BY <2>1, <2>2, AddKeepsChain
  <2>4. LineStep(q, Append(q, c))
    BY <2>1, <2>2 DEF LineStep
  <2>5. /\ Len(Append(q, c)) = Len(q) + 1 /\ Append(q, c)[Len(q) + 1] = c
        /\ \A i \in 1 .. Len(q) : Append(q, c)[i] = q[i]
    BY <1>0, <2>1, AppendProperties
  <2>6. \A d : Left(d) => Left(d)'
    BY <2>1 DEF Left
  <2>7. \A i \in 1 .. Len(Append(q, c)) :
          /\ Left(Append(q, c)[i])
          /\ \A w \in Workers : client[w] # Append(q, c)[i]
    BY <1>0, <2>2, <2>5 DEF PlacesApart
  <2> HIDE DEF list
  <2>8. PlacesApart(Append(q, c))'
    BY <2>1, <2>6, <2>7 DEF PlacesApart
  <2> QED
    BY <2>3, <2>4, <2>8
<1>6. ASSUME NEW w \in Workers, TakeClient(w)
      PROVE  Chain(Tail(q))' /\ PlacesApart(Tail(q))' /\ LineStep(q, Tail(q))
  <2>1. /\ num_clients # 0 /\ popClient(w) /\ wpc[w] = "test"
        /\ unsent' = unsent /\ pipe' = pipe /\ pc' = pc /\ request' = request
        /\ client' = [client EXCEPT ![w] = head]
    BY <1>6 DEF TakeClient, popClient
  <2>2. Chain(Tail(q))'
    BY <2>1, PopKeepsChain
  <2>3. /\ q # <<>> /\ head = q[1] /\ head = Head(q) /\ 1 \in 1 .. Len(q)
        /\ Len(Tail(q)) = Len(q) - 1
        /\ \A i \in 1 .. Len(Tail(q)) : Tail(q)[i] = q[i + 1]
    BY <2>1, ChainHasHead
  <2>4. client[w] = NULL
    BY <2>1 DEF LockInv
  <2>5. LineStep(q, Tail(q))
    BY <2>1, <2>3, <2>4 DEF LineStep
  <2>6. \A c : Left(c) => Left(c)'
    BY <2>1 DEF Left
  <2>7. \A i \in 1 .. Len(Tail(q)) : i + 1 \in 1 .. Len(q) /\ Tail(q)[i] = q[i + 1] /\ q[i + 1] # q[1]
    BY <1>0, <2>3 DEF Chain
  <2>8. \A v \in Workers : client'[v] = IF v = w THEN q[1] ELSE client[v]
    BY <2>1, <2>3 DEF Typed, TypeOK
  <2> HIDE DEF list
  <2>9. \A i \in 1 .. Len(Tail(q)) :
          Left(Tail(q)[i]) /\ \A v \in Workers : client'[v] # Tail(q)[i]
    <3>1. \A j \in 1 .. Len(q) : Left(q[j]) /\ \A v \in Workers : client[v] # q[j]
      BY DEF PlacesApart
    <3>2. \A i \in 1 .. Len(Tail(q)) :
            /\ Left(q[i + 1])
            /\ \A v \in Workers : client[v] # q[i + 1]
            /\ \A v \in Workers : client'[v] # q[i + 1]
      BY <2>7, <2>8, <3>1
    <3> QED
      BY <2>7, <3>2
  <2>10. \A v \in Workers : client'[v] # NULL => Left(client'[v])
    BY <2>3, <2>8 DEF PlacesApart
  <2>11. pc = "add" => /\ Left(request)
                       /\ \A i \in 1 .. Len(Tail(q)) : Tail(q)[i] # request
                       /\ \A v \in Workers : client'[v] # request
    BY <2>3, <2>7, <2>8 DEF PlacesApart
  <2>12. PlacesApart(Tail(q))'
    BY <2>1, <2>6, <2>9, <2>10, <2>11 DEF PlacesApart
  <2> QED
    BY <2>2, <2>5, <2>12
<1>7. ASSUME NEW w \in Workers, EndSession(w)
      PROVE  Chain(q)' /\ PlacesApart(q)' /\ LineStep(q, q)
  <2>1. Chain(q)'
    BY <1>7, ChainKept DEF EndSession
  <2>2. /\ client' = [client EXCEPT ![w] = NULL]
        /\ unsent' = unsent /\ pipe' = pipe /\ pc' = pc /\ request' = request
    BY <1>7 DEF EndSession
  <2>3. LineStep(q, q)
    BY <2>2 DEF LineStep
  <2>4. \A v \in Workers : client'[v] = IF v = w THEN NULL ELSE client[v]
    BY <2>2 DEF Typed, TypeOK
  <2>5. \A c : Left(c) => Left(c)'
    BY <2>2 DEF Left
  <2>6. request \in Clients \/ pc # "add"
    BY DEF Typed
  <2>7. /\ \A i \in 1 .. Len(q) : \A v \in Workers : client'[v] # q[i]
        /\ pc = "add" => \A v \in Workers : client'[v] # request
        /\ \A v \in Workers : client'[v] # NULL => Left(client'[v])
    BY <1>0, <2>4, <2>6, NameAssumption DEF PlacesApart
  <2>8. PlacesApart(q)'
    BY <2>2, <2>5, <2>7 DEF PlacesApart
  <2> QED
    BY <2>1, <2>3, <2>8
<1>8. CASE Signal
  <2>1. CASE pc = "blocked"
    BY <1>1, <1>8, <2>1 DEF Signal
  <2>2. CASE pc # "blocked"
    BY <1>2, <1>8, <2>2 DEF Signal
  <2> QED
    BY <2>1, <2>2
<1>9. CASE MainTop \/ MainShow \/ MainReset \/ MainRoom \/ MainBlock \/ MainNoMemory \/ MainSignal
  BY <1>1, <1>9
     DEF MainTop, MainShow, MainReset, MainRoom, MainBlock, MainNoMemory, MainSignal
<1>10. ASSUME NEW w \in Workers,
              LockClients(w) \/ FindsNoClient(w) \/ Wait(w) \/ SpuriousWakeup(w)
       PROVE  Chain(q)' /\ PlacesApart(q)' /\ LineStep(q, q)
  BY <1>2, <1>10 DEF LockClients, FindsNoClient, Wait, SpuriousWakeup
<1>11. CASE UNCHANGED vars
  BY <1>2, <1>11 DEF vars
<1> QED
  BY <1>3, <1>4, <1>5, <1>6, <1>7, <1>8, <1>9, <1>10, <1>11
     DEF Next, MainStep, WorkerStep

-----------------------------------------------------------------------------
(* No wakeup is lost.                                                        *)

(* NoLostWakeup also for a thread that has seen an empty list and has not    *)
(* reached pthread_cond_wait: it still owns clients_mutex.                   *)
WakeInv ==
  (sleeping # {} \/ \E w \in Workers : wpc[w] = "wait") =>
    num_clients <= Cardinality(OnTheirWay) + (IF pc = "signal" THEN 1 ELSE 0)

Way == {"lock_clients", "wake", "test"}

(* What a change of one thread's place does to the number of threads that    *)
(* are on their way to the list.                                             *)
LEMMA OneThreadMoves ==
  ASSUME Typed, NEW w \in Workers, NEW label, wpc' = [wpc EXCEPT ![w] = label]
  PROVE  /\ Cardinality(OnTheirWay) \in Nat /\ Cardinality(OnTheirWay') \in Nat
         /\ wpc[w] \in Way /\ label \notin Way =>
              Cardinality(OnTheirWay') = Cardinality(OnTheirWay) - 1
         /\ wpc[w] \notin Way /\ label \in Way =>
              Cardinality(OnTheirWay') = Cardinality(OnTheirWay) + 1
         /\ (wpc[w] \in Way <=> label \in Way) =>
              Cardinality(OnTheirWay') = Cardinality(OnTheirWay)
<1> USE DEF Way
<1>1. IsFiniteSet(OnTheirWay)
  BY WorkerAssumption, FS_Subset DEF OnTheirWay
<1>2. Cardinality(OnTheirWay) \in Nat
  BY <1>1, FS_CardinalityType
<1>3. \A v \in Workers : wpc'[v] = IF v = w THEN label ELSE wpc[v]
  BY DEF Typed, TypeOK
<1>4. CASE wpc[w] \in Way /\ label \notin Way
  <2>1. OnTheirWay' = OnTheirWay \ {w} /\ w \in OnTheirWay
    BY <1>3, <1>4 DEF OnTheirWay
  <2> QED
    BY <1>1, <1>2, <1>4, <2>1, FS_RemoveElement, FS_CardinalityType
<1>5. CASE wpc[w] \notin Way /\ label \in Way
  <2>1. OnTheirWay' = OnTheirWay \cup {w} /\ w \notin OnTheirWay
    BY <1>3, <1>5 DEF OnTheirWay
  <2> QED
    BY <1>1, <1>2, <1>5, <2>1, FS_AddElement, FS_CardinalityType
<1>6. CASE wpc[w] \in Way <=> label \in Way
  <2>1. OnTheirWay' = OnTheirWay
    BY <1>3, <1>6 DEF OnTheirWay
  <2> QED
    BY <1>2, <1>6, <2>1
<1> QED
  BY <1>4, <1>5, <1>6

LEMMA StartAwake == Init => WakeInv
  BY DEF Init, WakeInv

LEMMA StepAwake ==
  ASSUME Typed, LockInv, WakeInv, [Next]_vars
  PROVE  WakeInv'
<1> USE DEF list, sync, usr1, worker
<1>0. Cardinality(OnTheirWay) \in Nat /\ num_clients \in Nat
  BY WorkerAssumption, FS_Subset, FS_CardinalityType DEF OnTheirWay, Typed, TypeOK
(* Neither the list nor a thread changes.                                    *)
<1>1. ASSUME UNCHANGED <<num_clients, sleeping, wpc>>, pc = "signal" <=> pc' = "signal"
      PROVE  WakeInv'
  BY <1>1 DEF WakeInv, OnTheirWay
<1>2. CASE MainAdd
  <2>1. /\ num_clients' = num_clients + 1 /\ pc = "add" /\ pc' = "signal"
        /\ sleeping' = sleeping /\ wpc' = wpc /\ OnTheirWay' = OnTheirWay
    BY <1>2 DEF MainAdd, addClient, OnTheirWay
  <2> QED
    BY <1>0, <2>1 DEF WakeInv
<1>3. CASE MainSignal
  <2>1. pc = "signal" /\ clients_mutex = NULL /\ pc' = "top" /\ num_clients' = num_clients
    BY <1>3 DEF MainSignal
  <2>2. \A w \in Workers : wpc[w] # "wait"
    BY <2>1, NameAssumption DEF LockInv
  <2>3. CASE sleeping = {} /\ UNCHANGED <<sleeping, wpc>>
    BY <2>2, <2>3 DEF WakeInv
  <2>4. ASSUME NEW w \in sleeping,
               sleeping' = sleeping \ {w}, wpc' = [wpc EXCEPT ![w] = "wake"]
        PROVE  WakeInv'
    <3>1. w \in Workers /\ wpc[w] = "sleep"
      BY DEF Typed, TypeOK, LockInv
    <3>2. Cardinality(OnTheirWay') = Cardinality(OnTheirWay) + 1
      BY <2>4, <3>1, OneThreadMoves DEF Way
    <3> QED
      BY <1>0, <2>1, <3>2 DEF WakeInv
  <2> QED
    BY <1>3, <2>3, <2>4 DEF MainSignal
<1>4. ASSUME NEW w \in Workers, LockClients(w)
      PROVE  WakeInv'
  <2>1. Cardinality(OnTheirWay') = Cardinality(OnTheirWay)
    BY <1>4, OneThreadMoves DEF Way, LockClients, WGoto
  <2>2. \A v \in Workers : wpc'[v] = "wait" => wpc[v] = "wait"
    BY <1>4 DEF LockClients, WGoto, Typed, TypeOK
  <2>3. num_clients' = num_clients /\ sleeping' = sleeping /\ pc' = pc
    BY <1>4 DEF LockClients
  <2> QED
    BY <2>1, <2>2, <2>3 DEF WakeInv
<1>5. ASSUME NEW w \in Workers, FindsNoClient(w)
      PROVE  WakeInv'
  <2>1. Cardinality(OnTheirWay') \in Nat
    BY <1>5, OneThreadMoves DEF Way, FindsNoClient, WGoto
  <2>2. num_clients' = 0
    BY <1>5 DEF FindsNoClient
  <2> QED
    BY <2>1, <2>2 DEF WakeInv
<1>6. ASSUME NEW w \in Workers, Wait(w)
      PROVE  WakeInv'
  <2>0. wpc' = [wpc EXCEPT ![w] = "sleep"] /\ wpc[w] = "wait"
    BY <1>6 DEF Wait, WGoto
  <2>1. Cardinality(OnTheirWay') = Cardinality(OnTheirWay)
    <3>1. wpc[w] \notin Way /\ "sleep" \notin Way
      BY <2>0 DEF Way
    <3> QED
      BY <2>0, <3>1, OneThreadMoves
  <2>2. num_clients' = num_clients /\ pc' = pc /\ wpc[w] = "wait"
    BY <1>6 DEF Wait
  <2> QED
    BY <2>1, <2>2 DEF WakeInv
<1>7. ASSUME NEW w \in Workers, TakeClient(w)
      PROVE  WakeInv'
  <2>1. wpc[w] = "test" /\ num_clients' = num_clients - 1 /\ sleeping' = sleeping /\ pc' = pc
    BY <1>7 DEF TakeClient, popClient
  <2>2. Cardinality(OnTheirWay') = Cardinality(OnTheirWay) - 1
    <3>1. wpc' = [wpc EXCEPT ![w] = "session"]
      BY <1>7 DEF TakeClient, WGoto
    <3>2. wpc[w] \in Way /\ "session" \notin Way
      BY <2>1 DEF Way
    <3> QED
      BY <3>1, <3>2, OneThreadMoves
  <2>3. \A v \in Workers : wpc'[v] = "wait" => wpc[v] = "wait"
    BY <1>7 DEF TakeClient, WGoto, Typed, TypeOK
  <2> QED
    BY <1>0, <2>1, <2>2, <2>3 DEF WakeInv
<1>8. ASSUME NEW w \in Workers, EndSession(w) \/ SpuriousWakeup(w)
      PROVE  WakeInv'
  <2>1. /\ wpc[w] \in {"session", "sleep"}
        /\ \/ wpc' = [wpc EXCEPT ![w] = "lock_clients"]
           \/ wpc' = [wpc EXCEPT ![w] = "wake"]
    BY <1>8 DEF EndSession, SpuriousWakeup, WGoto, LockInv
  <2>2. Cardinality(OnTheirWay') = Cardinality(OnTheirWay) + 1
    BY <2>1, OneThreadMoves DEF Way
  <2>3. \A v \in Workers : wpc'[v] = "wait" => wpc[v] = "wait"
    BY <2>1 DEF Typed, TypeOK
  <2>4. num_clients' = num_clients /\ sleeping' \subseteq sleeping /\ pc' = pc
    BY <1>8 DEF EndSession, SpuriousWakeup
  <2> QED
    BY <1>0, <2>2, <2>3, <2>4 DEF WakeInv
<1>9. ASSUME NEW m \in Clients \cup Strays, Connect(m)
      PROVE  WakeInv'
  BY <1>1, <1>9 DEF Connect
<1>10. CASE Signal
  BY <1>1, <1>10 DEF Signal
<1>11. CASE MainTop \/ MainShow \/ MainReset \/ MainRoom \/ MainRead \/ MainBlock \/ MainNoMemory
  BY <1>1, <1>11 DEF MainTop, MainShow, MainReset, MainRoom, MainRead, MainBlock, MainNoMemory
<1>12. CASE UNCHANGED vars
  BY <1>1, <1>12 DEF vars
<1> QED
  BY <1>2, <1>3, <1>4, <1>5, <1>6, <1>7, <1>8, <1>9, <1>10, <1>11, <1>12
     DEF Next, MainStep, WorkerStep

-----------------------------------------------------------------------------
(* The theorems. *)

(* The inductive invariant.                                                  *)
IInv == Typed /\ LockInv /\ QueueInv /\ WakeInv

LEMMA QueueHasHead == QueueInv => HeadIsThere
BY ChainHasHead DEF QueueInv, HeadIsThere

LEMMA Invariant == Spec => []IInv
<1>1. Init => IInv
  BY StartTyped, StartLocked, StartQueue, StartAwake DEF IInv
<1>2. IInv /\ [Next]_vars => IInv'
  <2> SUFFICES ASSUME IInv, [Next]_vars PROVE IInv'
    OBVIOUS
  <2>1. Typed' /\ LockInv' /\ WakeInv'
    BY StepTyped, StepLocked, StepAwake, QueueHasHead DEF IInv
  <2>2. QueueInv'
    BY StepQueue DEF IInv, QueueInv
  <2> QED
    BY <2>1, <2>2 DEF IInv
<1> QED
  BY <1>1, <1>2, PTL DEF Spec

(* Every variable of main and of the session threads keeps its type; what    *)
(* main adds to the list is a client, never another message.                 *)
THEOREM QueueTypes == Spec => []TypeOK
<1>1. IInv => TypeOK
  BY DEF IInv, Typed
<1> QED
  BY <1>1, Invariant, PTL

(* However many threads and clients there are, a thread sleeps on            *)
(* clients_cond only while every client of the list has a thread that is     *)
(* awake, or main is about to signal (lines 239-241 and 307-317).            *)
THEOREM NoWakeupIsLost == Spec => []NoLostWakeup
<1>1. IInv => NoLostWakeup
  BY DEF IInv, WakeInv, NoLostWakeup
<1> QED
  BY <1>1, Invariant, PTL

(* Following `next` from `head` ends at `tail` after num_clients nodes, and  *)
(* an empty list has no head, although popClient leaves tail (lines 554-577).*)
THEOREM TailIsLast == Spec => []ListEndsAtTail
<1>1. ASSUME NEW q, Chain(q) PROVE ListEndsAtTail
  <2>1. QueueView = q
    BY <1>1, ViewOfChain
  <2>2. q \in Seq(Clients) /\ Len(q) = num_clients /\ Len(q) \in Nat
    BY <1>1, LenProperties DEF Chain
  <2>3. CASE num_clients = 0
    BY <1>1, <2>2, <2>3, EmptySeq DEF Chain, ListEndsAtTail
  <2>4. CASE num_clients # 0
    <3>1. q # <<>>
      BY <2>2, <2>4, EmptySeq
    <3> QED
      BY <1>1, <2>1, <2>2, <2>4, <3>1 DEF Chain, ListEndsAtTail
  <2> QED
    BY <2>3, <2>4
<1>2. IInv => ListEndsAtTail
  BY <1>1 DEF IInv, QueueInv
<1> QED
  BY <1>2, Invariant, PTL

(* The list, its counter and the condition variable implement a first-come   *)
(* first-served line: no client is lost, overtaken or given to two threads.  *)
THEOREM QueueIsALine == Spec => ImplementsLine
<1>1. Init => Line!LineInit
  <2> SUFFICES ASSUME Init PROVE Line!LineInit
    OBVIOUS
  <2>1. Chain(<<>>)
    <3>1. <<>> \in Seq(Clients) /\ Len(<<>>) = 0
      BY EmptySeq
    <3> QED
      BY <3>1 DEF Init, Chain
  <2>2. QueueView = <<>>
    BY <2>1, ViewOfChain
  <2> QED
    BY <2>2 DEF Init, Line!LineInit
<1>2. (\A q : Chain(q) => QueueView = q)'
  BY ViewOfChain, PTL
<1>3. IInv /\ [Next]_vars => [Line!LineNext]_(Line!lineVars)
  <2> SUFFICES ASSUME IInv, [Next]_vars PROVE [Line!LineNext]_(Line!lineVars)
    OBVIOUS
  <2>1. PICK q : Chain(q) /\ PlacesApart(q)
    BY DEF IInv, QueueInv
  <2>2. PICK r : Chain(r)' /\ LineStep(q, r)
    BY <2>1, StepQueue DEF IInv
  <2>3. QueueView = q /\ QueueView' = r
    BY <1>2, <2>1, <2>2, ViewOfChain
  <2>4. DOMAIN q = 1 .. Len(q)
    BY <2>1, LenProperties DEF Chain
  <2> HIDE DEF QueueView
  <2>5. CASE r = q /\ client' = client
    BY <2>3, <2>5 DEF Line!lineVars
  <2>6. ASSUME NEW c \in Clients,
               \A i \in 1 .. Len(q) : q[i] # c, \A w \in Workers : client[w] # c,
               r = Append(q, c), client' = client
        PROVE  Line!Join(c)
    BY <2>3, <2>4, <2>6 DEF Line!Join, Line!InLine
  <2>7. ASSUME NEW w \in Workers, q # <<>>, client[w] = NULL,
               client' = [client EXCEPT ![w] = Head(q)], r = Tail(q)
        PROVE  Line!Serve(w)
    BY <2>3, <2>7 DEF Line!Serve
  <2>8. ASSUME NEW w \in Workers, r = q, client' = [client EXCEPT ![w] = NULL]
        PROVE  Line!Leave(w)
    BY <2>3, <2>8 DEF Line!Leave
  <2> QED
    BY <2>2, <2>5, <2>6, <2>7, <2>8 DEF LineStep, Line!LineNext
<1> QED
  BY <1>1, <1>3, Invariant, PTL DEF Spec, ImplementsLine, Line!LineSpec
=============================================================================
