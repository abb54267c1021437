--------------------------- MODULE EmsServerProofs ---------------------------
(***************************************************************************)
(* Proofs about clients and session threads (EmsServer): the type           *)
(* invariant, that no answer is cut, mixed or left behind, and that the     *)
(* whole of pipes and threads implements Conversation, for every number of  *)
(* clients and threads, every job file and every size of a FIFO.            *)
(***************************************************************************)
EXTENDS EmsServer, SequenceTheorems, TLAPS

-----------------------------------------------------------------------------
(* The inductive invariant. *)

Places == {"away", "open_req", "open_resp", "hello", "ready", "receive", "gone"}
Stages == {"none", "open_req", "open_resp", "hello", "serve"}

Types ==
  /\ line \in Seq(Clients) /\ client \in [Workers -> Clients \cup {NULL}]
  /\ script \in Scripts
  /\ cpc \in [Clients -> Places] /\ alive \in [Clients -> BOOLEAN]
  /\ fetched \in [Clients -> Nat] /\ served \in [Clients -> Nat]
  /\ got \in [Clients -> Seq(Nat)] /\ resp \in [Clients -> Seq(Nat)]
  /\ req \in [Clients -> Seq(Requests \cup {Quit})]
  /\ spc \in [Workers -> Stages] /\ unwritten \in [Workers -> Seq(Nat)]
  /\ stored \in BOOLEAN /\ kept \in BOOLEAN
  /\ faults \in 0 .. MaxFaults

(* A client is in one place: once in the line, or with one thread.           *)
Pairing ==
  /\ \A i, j \in 1 .. Len(line) : line[i] = line[j] => i = j
  /\ \A i \in 1 .. Len(line) : cpc[line[i]] = "open_req" /\ \A w \in Workers : client[w] # line[i]
  /\ \A v, w \in Workers : client[v] = client[w] /\ client[v] # NULL => v = w

(* How far the two sides of a session may be apart.                          *)
SessionOf(w) ==
  /\ client[w] = NULL <=> spc[w] = "none"
  /\ client[w] = NULL => unwritten[w] = <<>>
  /\ client[w] # NULL =>
       /\ spc[w] # "serve" => cpc[client[w]] = spc[w]
       /\ spc[w] = "serve" => cpc[client[w]] \in {"hello", "ready", "receive", "gone"}
       /\ spc[w] = "hello" => resp[client[w]] = <<>>
       /\ cpc[client[w]] # "receive" => unwritten[w] = <<>>
Sessions == \A w \in Workers : SessionOf(w)

(* Before a request and after its answer both FIFOs are empty.               *)
Quiet(c) ==
  /\ cpc[c] = "away" => alive[c]
  /\ cpc[c] # "receive" => got[c] = <<>>
  /\ cpc[c] \notin {"hello", "receive"} => resp[c] = <<>>
  /\ cpc[c] = "hello" => resp[c] \in {<<>>, <<0>>}
  /\ cpc[c] \notin {"receive", "gone"} => req[c] = <<>>
  /\ cpc[c] = "gone" => req[c] \in {<<>>, <<Quit>>}

(* A request that was not carried out yet has no word of an answer.          *)
Asked(c) ==
  cpc[c] = "receive" =>
    /\ command(c).op \in Requests
    /\ req[c] # <<>> =>
         /\ req[c] = <<command(c).op>>
         /\ served[c] < fetched[c]
         /\ got[c] = <<>> /\ resp[c] = <<>>
         /\ \A w \in Workers : client[w] = c => unwritten[w] = <<>>

(* One that was carried out has its whole answer, wherever the words are.    *)
Answered(c) ==
  alive[c] /\ cpc[c] = "receive" /\ req[c] = <<>> =>
    /\ \A w \in Workers :
         client[w] = c => got[c] \o (resp[c] \o unwritten[w]) \in AnswersTo(command(c).op)
    /\ (\A w \in Workers : client[w] # c) => got[c] = <<>> /\ resp[c] = <<>>

Counts(c) ==
  /\ served[c] <= fetched[c]
  /\ script[c] # NoFile => fetched[c] <= Len(script[c])
  /\ Len(resp[c]) <= RespRoom

Dialogue(c) == Quiet(c) /\ Asked(c) /\ Answered(c) /\ Counts(c)
Dialogues == \A c \in Clients : Dialogue(c)

IInv == Types /\ Pairing /\ Sessions /\ Dialogues
-----------------------------------------------------------------------------
(* Sequences of words. *)

LEMMA WordsInARow ==
  ASSUME NEW x \in Seq(Nat), NEW y \in Seq(Nat), NEW z \in Seq(Nat)
  PROVE  x \o (y \o z) = (x \o y) \o z
BY SMTT(60)

(* A word that goes from the front of one part to the end of the other       *)
(* leaves the whole as it is.                                                *)
LEMMA WordMoves ==
  ASSUME NEW s \in Seq(Nat), NEW t \in Seq(Nat), t # <<>>
  PROVE  /\ Append(s, Head(t)) \o Tail(t) = s \o t
         /\ Append(s, Head(t)) \in Seq(Nat) /\ Tail(t) \in Seq(Nat)
         /\ Len(Append(s, Head(t))) = Len(s) + 1
<1>1. Head(t) \in Nat /\ Tail(t) \in Seq(Nat) /\ Append(s, Head(t)) \in Seq(Nat)
  OBVIOUS
<1>. DEFINE x == Append(s, Head(t)) \o Tail(t)
            y == s \o t
<1>2. Len(t) \in Nat \ {0} /\ Len(Tail(t)) = Len(t) - 1 /\ Len(Append(s, Head(t))) = Len(s) + 1
  OBVIOUS
<1>3. x \in Seq(Nat) /\ y \in Seq(Nat) /\ Len(x) = Len(y)
  BY <1>1, <1>2, ConcatProperties
<1>4. \A i \in 1 .. Len(x) : x[i] = y[i]
  BY <1>1, <1>2
<1>5. x = y
  BY <1>3, <1>4, SeqEqual
<1> QED
  BY <1>1, <1>2, <1>5

LEMMA WordReceived ==
  ASSUME NEW s \in Seq(Nat), NEW t \in Seq(Nat), NEW u \in Seq(Nat), t # <<>>
  PROVE  Append(s, Head(t)) \o (Tail(t) \o u) = s \o (t \o u)
<1>1. \A a, b \in Seq(Nat) : a \o (b \o u) = (a \o b) \o u
  BY WordsInARow, SMTT(60)
<1>2. Append(s, Head(t)) \in Seq(Nat) /\ Tail(t) \in Seq(Nat)
      /\ Append(s, Head(t)) \o Tail(t) = s \o t
  BY WordMoves
<1>3. Append(s, Head(t)) \o (Tail(t) \o u) = (Append(s, Head(t)) \o Tail(t)) \o u
  BY <1>1, <1>2, Zenon
<1>4. s \o (t \o u) = (s \o t) \o u
  BY <1>1, Zenon
<1> QED
  BY <1>2, <1>3, <1>4, Zenon

LEMMA EmptyWhole ==
  ASSUME NEW s \in Seq(Nat), NEW t \in Seq(Nat), s \o t = <<>>
  PROVE  s = <<>> /\ t = <<>>
<1>1. PICK n \in Nat : n = Len(s)
  BY LenProperties
<1>2. PICK m \in Nat : m = Len(t)
  BY LenProperties
<1>3. n + m = 0
  BY <1>1, <1>2, ConcatProperties
<1> QED
  BY <1>1, <1>2, <1>3, EmptySeq

(* How many words the client wants of an answer with data.                   *)
LEMMA DueOfData ==
  ASSUME NEW s \in Seq(Nat), s # <<>>, s[1] = 0, NEW n \in Nat, n > 0, n = Len(s)
  PROVE  /\ Due("show", s) = IF n <= 4 THEN 5 ELSE 5 + s[2] * s[4]
         /\ Due("list", s) = IF n <= 2 THEN 3 ELSE 3 + s[2]
<1>. DEFINE few(i)  == i \in 1 .. 2 /\ i \in 1 .. 4 /\ ~(i > 4) /\ ~(i > 2) /\ i <= 4 /\ i <= 2
            some(i) == i \in 1 .. 4 /\ ~(i > 4) /\ i > 2 /\ ~(i \in 1 .. 2) /\ i <= 4 /\ ~(i <= 2)
            many(i) == ~(i \in 1 .. 4) /\ ~(i \in 1 .. 2) /\ i > 4 /\ i > 2 /\ ~(i <= 4) /\ ~(i <= 2)
<1>1. \A i \in Nat : i > 0 => few(i) \/ some(i) \/ many(i)
  OBVIOUS
<1>2. few(n) \/ some(n) \/ many(n)
  BY <1>1
<1>3. CASE few(n)
  <2>1. Due("show", s) = 5 /\ Due("list", s) = 3
    BY <1>3, Zenon DEF Due
  <2> QED
    BY <1>3, <2>1
<1>4. CASE some(n)
  <2>1. Due("show", s) = 5
    BY <1>4, Zenon DEF Due
  <2>2. Due("list", s) = 3 + s[2]
    BY <1>4, Zenon DEF Due
  <2> QED
    BY <1>4, <2>1, <2>2
<1>5. CASE many(n)
  <2>1. Due("show", s) = 5 + s[2] * s[4] /\ Due("list", s) = 3 + s[2]
    BY <1>5, Zenon DEF Due
  <2> QED
    BY <1>5, <2>1
<1> QED
  BY <1>2, <1>3, <1>4, <1>5

(* Whoever has nothing wants something.                                      *)
LEMMA NothingWantsWords ==
  ASSUME NEW op \in Requests, NEW s, Len(s) = Due(op, s)
  PROVE  s # <<>>
<1>1. op \in {"create", "reserve"} \/ op = "show" \/ op = "list"
  BY DEF Requests
<1>2. ~(0 \in 1 .. 4) /\ ~(0 > 4) /\ ~(0 \in 1 .. 2) /\ ~(0 > 2) /\ Len(<<>>) = 0
  OBVIOUS
<1>3. s = <<>> => Due(op, s) = 1
  BY <1>1, <1>2, Zenon DEF Due
<1> QED
  BY <1>2, <1>3

(* Whoever has all the words it wants of a whole answer has the answer       *)
(* (api.c:78-87, 103-112, 124-152 and 164-190).                              *)
LEMMA NothingIsLeft ==
  ASSUME NEW op \in Requests, NEW s \in Seq(Nat), NEW t \in Seq(Nat),
         s \o t \in AnswersTo(op), Len(s) = Due(op, s)
  PROVE  s # <<>> /\ t = <<>>
<1>1. PICK n \in Nat : n = Len(s)
  BY LenProperties
<1>2. PICK m \in Nat : m = Len(t)
  BY LenProperties
<1>3. Len(s \o t) = n + m
  BY <1>1, <1>2, ConcatProperties
<1>4. \A i \in 1 .. n : (s \o t)[i] = s[i]
  BY <1>1, <1>2, <1>3, ConcatProperties
<1>5. s # <<>> /\ n > 0
  BY <1>1, NothingWantsWords, EmptySeq
<1>6. SUFFICES m = 0
  BY <1>2, <1>5, EmptySeq
<1>7. CASE op \in {"create", "reserve"}
  <2>1. s \o t \in {<<0>>, <<1>>}
    BY <1>7 DEF AnswersTo
  <2> QED
    BY <1>3, <1>5, <2>1
<1>8. ASSUME s \o t = << 1 >> PROVE m = 0
  BY <1>3, <1>5, <1>8
<1>9. CASE op = "show"
  <2>1. ASSUME s \o t = <<0, 1, 0, 1, 0, 1>> PROVE m = 0
    <3>1. n + m = 6 /\ s[1] = 0
      BY <1>3, <1>4, <1>5, <2>1
    <3>2. n > 4 => s[2] = 1 /\ s[4] = 1
      BY <1>4, <2>1
    <3>3. n = IF n <= 4 THEN 5 ELSE 5 + s[2] * s[4]
      <4>1. n = Due("show", s)
        BY <1>1, <1>9
      <4> QED
        BY <1>1, <1>5, <3>1, <4>1, DueOfData
    <3> QED
      BY <3>1, <3>2, <3>3
  <2> QED
    BY <1>8, <1>9, <2>1 DEF AnswersTo
<1>10. CASE op = "list"
  <2>1. ASSUME s \o t = <<0, 0, 0>> PROVE m = 0
    <3>1. s[1] = 0 /\ (n > 2 => s[2] = 0)
      BY <1>4, <1>5, <2>1
    <3>2. n = IF n <= 2 THEN 3 ELSE 3 + s[2]
      <4>1. n = Due("list", s)
        BY <1>1, <1>10
      <4> QED
        BY <1>1, <1>5, <3>1, <4>1, DueOfData
    <3>3. n + m = 3
      BY <1>3, <2>1
    <3> QED
      BY <3>1, <3>2, <3>3
  <2>2. ASSUME s \o t = <<0, 1, 0, 1>> PROVE m = 0
    <3>1. s[1] = 0 /\ (n > 2 => s[2] = 1)
      BY <1>4, <1>5, <2>2
    <3>2. n = IF n <= 2 THEN 3 ELSE 3 + s[2]
      <4>1. n = Due("list", s)
        BY <1>1, <1>10
      <4> QED
        BY <1>1, <1>5, <3>1, <4>1, DueOfData
    <3>3. n + m = 4
      BY <1>3, <2>2
    <3> QED
      BY <3>1, <3>2, <3>3
  <2> QED
    BY <1>8, <1>10, <2>1, <2>2 DEF AnswersTo
<1> QED
  BY <1>7, <1>9, <1>10 DEF Requests

LEMMA WholeIsNatural ==
  ASSUME NEW op \in Requests, NEW answer \in AnswersTo(op)
  PROVE  answer \in Seq(Nat) /\ answer # <<>>
<1>1. answer \in {<<0>>, <<1>>, <<0, 1, 0, 1, 0, 1>>, <<0, 0, 0>>, <<0, 1, 0, 1>>}
  BY Zenon DEF AnswersTo, Requests
<1>2. <<0>> \in Seq(Nat) /\ <<1>> \in Seq(Nat) /\ <<0>> # <<>> /\ <<1>> # <<>>
  OBVIOUS
<1>3. <<0, 0, 0>> \in Seq(Nat) /\ <<0, 1, 0, 1>> \in Seq(Nat) /\ <<0, 0, 0>> # <<>> /\ <<0, 1, 0, 1>> # <<>>
  OBVIOUS
<1>4. <<0, 1, 0, 1, 0, 1>> \in Seq(Nat) /\ <<0, 1, 0, 1, 0, 1>> # <<>>
  OBVIOUS
<1> QED
  BY <1>1, <1>2, <1>3, <1>4

-----------------------------------------------------------------------------
(* Initial states. *)

LEMMA InitInv == Init => IInv
<1>. SUFFICES ASSUME Init PROVE IInv
  OBVIOUS
<1>1. Types
  <2>1. /\ line \in Seq(Clients) /\ client \in [Workers -> Clients \cup {NULL}] /\ script \in Scripts
        /\ cpc \in [Clients -> Places] /\ alive \in [Clients -> BOOLEAN]
        /\ fetched \in [Clients -> Nat] /\ served \in [Clients -> Nat]
    BY SessionAssumption DEF Init, LineInit, Places
  <2>2. /\ got \in [Clients -> Seq(Nat)] /\ resp \in [Clients -> Seq(Nat)]
        /\ req \in [Clients -> Seq(Requests \cup {Quit})]
        /\ spc \in [Workers -> Stages] /\ unwritten \in [Workers -> Seq(Nat)]
    BY DEF Init, Stages
  <2>3. faults \in 0 .. MaxFaults
    BY SessionAssumption DEF Init
  <2>4. stored \in BOOLEAN /\ kept \in BOOLEAN
    BY DEF Init
  <2> QED
    BY <2>1, <2>2, <2>3, <2>4 DEF Types
<1>2. Pairing
  BY DEF Init, LineInit, Pairing
<1>3. Sessions
  BY DEF Init, LineInit, Sessions, SessionOf
<1>4. Dialogues
  <2>. SUFFICES ASSUME NEW c \in Clients PROVE Dialogue(c)
    BY DEF Dialogues
  <2>1. cpc[c] = "away" /\ alive[c] /\ fetched[c] = 0 /\ served[c] = 0
        /\ got[c] = <<>> /\ resp[c] = <<>> /\ req[c] = <<>>
    BY DEF Init
  <2>2. Counts(c)
    <3>1. script[c] # NoFile => Len(script[c]) \in Nat
      BY SessionAssumption DEF Init
    <3>2. Len(resp[c]) = 0
      BY <2>1
    <3> QED
      BY <2>1, <3>1, <3>2, SessionAssumption DEF Counts
  <2> QED
    BY <2>1, <2>2 DEF Dialogue, Quiet, Asked, Answered
<1> QED
  BY <1>1, <1>2, <1>3, <1>4 DEF IInv
-----------------------------------------------------------------------------
(* The client's steps. *)

LEMMA PairingStays ==
  ASSUME IInv, UNCHANGED lineVars,
         \A d \in Clients : cpc[d] = "open_req" => cpc'[d] = "open_req"
  PROVE  Pairing'
<1>1. \A i \in 1 .. Len(line) : line[i] \in Clients
  BY DEF IInv, Types
<1> QED
  BY <1>1 DEF IInv, Pairing, lineVars

(* A client that has opened both FIFOs has its thread with it.               *)
LEMMA SessionsStay ==
  ASSUME IInv, UNCHANGED <<lineVars, threadVars>>, NEW c \in Clients,
         \A d \in Clients \ {c} : cpc'[d] = cpc[d] /\ resp'[d] = resp[d],
         cpc[c] \in {"hello", "ready", "receive"}, cpc'[c] \in {"ready", "receive", "gone"},
         cpc[c] = "hello" => resp[c] # <<>>,
         cpc[c] # cpc'[c] => \A w \in Workers : client[w] = c => unwritten[w] = <<>>
  PROVE  Sessions'
<1>. SUFFICES ASSUME NEW w \in Workers PROVE SessionOf(w)'
  BY DEF Sessions
<1>0. SessionOf(w) /\ client[w] \in Clients \cup {NULL} /\ spc[w] \in Stages
  BY DEF IInv, Sessions, Types
<1>1. client'[w] = client[w] /\ spc'[w] = spc[w] /\ unwritten'[w] = unwritten[w]
  BY DEF lineVars, threadVars
<1>2. CASE client[w] = NULL
  BY <1>0, <1>1, <1>2 DEF SessionOf
<1>3. CASE client[w] # NULL /\ client[w] # c
  BY <1>0, <1>1, <1>3 DEF SessionOf
<1>4. CASE client[w] # NULL /\ client[w] = c
  <2>1. spc[w] = "serve"
    BY <1>0, <1>4 DEF SessionOf, Stages
  <2> QED
    BY <1>0, <1>1, <1>4, <2>1 DEF SessionOf
<1> QED
  BY <1>2, <1>3, <1>4

(* The session_id is the only word in the FIFO (api.c:59-72).               *)
LEMMA ReadHelloInv ==
  ASSUME IInv, NEW c \in Clients, ReadHello(c)
  PROVE  IInv'
<1>. USE DEF ReadHello, CGoto, threadVars, lineVars, storeVars
<1>1. Types'
  <2>1. resp' \in [Clients -> Seq(Nat)] /\ cpc' \in [Clients -> Places]
    BY DEF IInv, Types, Places
  <2> QED
    BY <2>1 DEF IInv, Types
<1>2. Pairing'
  BY PairingStays DEF IInv, Types
<1>3. Sessions'
  <2>1. cpc[c] = "hello" /\ resp[c] # <<>> /\ \A w \in Workers : client[w] = c => unwritten[w] = <<>>
    BY DEF IInv, Types, Sessions, SessionOf
  <2>2. cpc'[c] = "ready" /\ \A d \in Clients \ {c} : cpc'[d] = cpc[d] /\ resp'[d] = resp[d]
    BY DEF IInv, Types
  <2> QED
    BY <2>1, <2>2, SessionsStay
<1>4. ASSUME NEW d \in Clients, d # c PROVE Dialogue(d)'
  BY <1>4 DEF IInv, Types, Dialogues, Dialogue, Quiet, Asked, Answered, Counts, command
<1>5. Quiet(c)'
  <2>1. resp[c] = <<0>> /\ got[c] = <<>> /\ req[c] = <<>>
    BY DEF IInv, Dialogues, Dialogue, Quiet
  <2>2. Tail(<<0>>) = <<>>
    OBVIOUS
  <2> QED
    BY <2>1, <2>2 DEF IInv, Types, Quiet
<1>6. Asked(c)'
  BY DEF IInv, Types, Sessions, SessionOf, Dialogues, Dialogue, Quiet, Asked, Counts, command
<1>7. Answered(c)'
  BY DEF IInv, Types, Dialogues, Dialogue, Quiet, Asked, Answered, command
<1>8. Counts(c)'
  BY SessionAssumption DEF IInv, Types, Dialogues, Dialogue, Counts
<1> QED
  BY <1>1, <1>2, <1>3, <1>4, <1>5, <1>6, <1>7, <1>8 DEF IInv, Dialogues, Dialogue

(* A client without a job file has no request on its way (main_client.c:37-45).*)
LEMMA ExitEarlyInv ==
  ASSUME IInv, NEW c \in Clients, ExitEarly(c)
  PROVE  IInv'
<1>. USE DEF ExitEarly, threadVars, lineVars, storeVars
<1>1. Types'
  BY SessionAssumption DEF IInv, Types, Places
<1>2. Pairing'
  BY DEF IInv, Types, Pairing
<1>3. Sessions'
  BY SessionAssumption DEF IInv, Types, Pairing, Sessions, SessionOf, Dialogues, Dialogue, Quiet
<1>4. ASSUME NEW d \in Clients, d # c PROVE Dialogue(d)'
  BY <1>4 DEF IInv, Types, Dialogues, Dialogue, Quiet, Asked, Answered, Counts, command
<1>5. Quiet(c)'
  BY DEF IInv, Types, Dialogues, Dialogue, Quiet, Asked
<1>6. Asked(c)'
  BY DEF IInv, Types, Sessions, SessionOf, Dialogues, Dialogue, Quiet, Asked, Counts, command
<1>7. Answered(c)'
  BY DEF IInv, Types, Dialogues, Dialogue, Quiet, Asked, Answered, command
<1>8. Counts(c)'
  BY SessionAssumption DEF IInv, Types, Dialogues, Dialogue, Counts
<1> QED
  BY <1>1, <1>2, <1>3, <1>4, <1>5, <1>6, <1>7, <1>8 DEF IInv, Dialogues, Dialogue

(* The request is the only one, and nothing is left of an older answer      *)
(* (api.c:76-122, 155-162).                                                 *)
LEMMA RequestInv ==
  ASSUME IInv, NEW c \in Clients, Request(c)
  PROVE  IInv'
<1>. USE DEF Request, HasNext, Send, CGoto, threadVars, lineVars, storeVars
<1>1. Types'
  <2>1. req \in [Clients -> Seq(Requests \cup {Quit})] /\ fetched \in [Clients -> Nat]
        /\ cpc \in [Clients -> Places]
    BY DEF IInv, Types
  <2>. PICK op \in Requests : req' = [req EXCEPT ![c] = Append(@, op)]
    BY Zenon
  <2>2. req' \in [Clients -> Seq(Requests \cup {Quit})]
    BY <2>1
  <2>3. fetched' \in [Clients -> Nat] /\ cpc' \in [Clients -> Places]
    BY <2>1 DEF Places
  <2> QED
    BY <2>2, <2>3 DEF IInv, Types
<1>2. Pairing'
  BY PairingStays DEF IInv, Types
<1>3. Sessions'
  <2>1. cpc[c] = "ready" /\ \A w \in Workers : client[w] = c => unwritten[w] = <<>>
    BY DEF IInv, Types, Sessions, SessionOf
  <2>2. cpc'[c] = "receive" /\ \A d \in Clients \ {c} : cpc'[d] = cpc[d] /\ resp'[d] = resp[d]
    BY DEF IInv, Types
  <2> QED
    BY <2>1, <2>2, SessionsStay
<1>4. ASSUME NEW d \in Clients, d # c PROVE Dialogue(d)'
  BY <1>4 DEF IInv, Types, Dialogues, Dialogue, Quiet, Asked, Answered, Counts, command
<1>5. Quiet(c)'
  BY DEF IInv, Types, Dialogues, Dialogue, Quiet, Asked
<1>6. Asked(c)'
  <2>1. req[c] = <<>> /\ got[c] = <<>> /\ resp[c] = <<>> /\ served[c] <= fetched[c]
    BY DEF IInv, Dialogues, Dialogue, Quiet, Counts
  <2>2. \A w \in Workers : client[w] = c => unwritten[w] = <<>>
    BY DEF IInv, Sessions, SessionOf
  <2>3. fetched'[c] = fetched[c] + 1 /\ command(c)' = script[c][fetched[c] + 1]
    BY DEF IInv, Types, command
  <2>4. req'[c] = <<command(c)'.op>>
    BY <2>1, <2>3 DEF IInv, Types
  <2>5. served'[c] < fetched'[c]
    BY <2>1, <2>3 DEF IInv, Types
  <2> QED
    BY <2>1, <2>2, <2>3, <2>4, <2>5 DEF IInv, Types, Asked
<1>7. Answered(c)'
  <2>1. req[c] = <<>>
    BY DEF IInv, Dialogues, Dialogue, Quiet
  <2>2. req'[c] # <<>>
    BY <2>1 DEF IInv, Types
  <2> QED
    BY <2>2, Zenon DEF Answered
<1>8. Counts(c)'
  BY SessionAssumption DEF IInv, Types, Dialogues, Dialogue, Counts
<1> QED
  BY <1>1, <1>2, <1>3, <1>4, <1>5, <1>6, <1>7, <1>8 DEF IInv, Dialogues, Dialogue

(* A command for nobody changes nothing between client and server.          *)
LEMMA SkipInv ==
  ASSUME IInv, NEW c \in Clients, Skip(c)
  PROVE  IInv'
<1>. USE DEF Skip, HasNext, threadVars, lineVars, storeVars
<1>1. Types'
  <2>1. fetched' \in [Clients -> Nat]
    BY DEF IInv, Types
  <2> QED
    BY <2>1 DEF IInv, Types
<1>2. Pairing'
  BY DEF IInv, Types, Pairing
<1>3. Sessions'
  BY SessionAssumption DEF IInv, Types, Pairing, Sessions, SessionOf, Dialogues, Dialogue, Quiet
<1>4. ASSUME NEW d \in Clients, d # c PROVE Dialogue(d)'
  BY <1>4 DEF IInv, Types, Dialogues, Dialogue, Quiet, Asked, Answered, Counts, command
<1>5. Quiet(c)'
  BY DEF IInv, Types, Dialogues, Dialogue, Quiet, Asked
<1>6. Asked(c)'
  BY DEF IInv, Types, Sessions, SessionOf, Dialogues, Dialogue, Quiet, Asked, Counts, command
<1>7. Answered(c)'
  BY DEF IInv, Types, Dialogues, Dialogue, Quiet, Asked, Answered, command
<1>8. Counts(c)'
  BY SessionAssumption DEF IInv, Types, Dialogues, Dialogue, Counts
<1> QED
  BY <1>1, <1>2, <1>3, <1>4, <1>5, <1>6, <1>7, <1>8 DEF IInv, Dialogues, Dialogue

(* A word moves from the FIFO to what the client has (io.c:73-91).          *)
LEMMA ReceiveInv ==
  ASSUME IInv, NEW c \in Clients, Receive(c)
  PROVE  IInv'
<1>. USE DEF Receive, threadVars, lineVars, storeVars
<1>1. Types'
  <2>1. Head(resp[c]) \in Nat /\ Append(got[c], Head(resp[c])) \in Seq(Nat) /\ Tail(resp[c]) \in Seq(Nat)
    BY WordMoves DEF IInv, Types
  <2>2. got' \in [Clients -> Seq(Nat)] /\ resp' \in [Clients -> Seq(Nat)]
    BY <2>1 DEF IInv, Types
  <2> QED
    BY <2>2 DEF IInv, Types
<1>2. Pairing'
  BY DEF IInv, Types, Pairing
<1>3. Sessions'
  <2>1. \A d \in Clients : cpc'[d] = cpc[d] /\ (resp'[d] = resp[d] \/ (d = c /\ cpc[d] = "receive"))
    BY DEF IInv, Types
  <2>2. client \in [Workers -> Clients \cup {NULL}] /\ \A w \in Workers : SessionOf(w)
    BY DEF IInv, Types, Sessions
  <2>. HIDE DEF Receive
  <2>3. UNCHANGED <<lineVars, threadVars>>
    BY DEF Receive
  <2> QED
    BY <2>1, <2>2, <2>3 DEF Sessions, SessionOf
<1>4. ASSUME NEW d \in Clients, d # c PROVE Dialogue(d)'
  BY <1>4 DEF IInv, Types, Dialogues, Dialogue, Quiet, Asked, Answered, Counts, command
<1>5. Quiet(c)'
  BY DEF IInv, Types, Dialogues, Dialogue, Quiet, Asked
<1>6. Asked(c)'
  BY DEF IInv, Types, Sessions, SessionOf, Dialogues, Dialogue, Quiet, Asked, Counts, command
<1>7. Answered(c)'
  <2>1. got'[c] = Append(got[c], Head(resp[c])) /\ resp'[c] = Tail(resp[c])
    BY DEF IInv, Types
  <2>2. got[c] \in Seq(Nat) /\ resp[c] \in Seq(Nat) /\ resp[c] # <<>>
    BY DEF IInv, Types
  <2>3. Answered(c) /\ alive[c] /\ alive' = alive /\ command(c)' = command(c)
        /\ client' = client /\ unwritten' = unwritten /\ cpc' = cpc /\ req' = req
    BY DEF IInv, Dialogues, Dialogue, command
  <2>. HIDE DEF Receive
  <2>4. \A u \in Seq(Nat) :
          Append(got[c], Head(resp[c])) \o (Tail(resp[c]) \o u) = got[c] \o (resp[c] \o u)
    BY <2>2, WordReceived
  <2>5. \A w \in Workers : unwritten[w] \in Seq(Nat)
    BY DEF IInv, Types
  <2>6. \A w \in Workers : got'[c] \o (resp'[c] \o unwritten[w]) = got[c] \o (resp[c] \o unwritten[w])
    BY <2>1, <2>4, <2>5, Zenon
  <2> QED
    BY <2>2, <2>3, <2>6, Zenon DEF Answered
<1>8. Counts(c)'
  BY SessionAssumption DEF IInv, Types, Dialogues, Dialogue, Counts
<1> QED
  BY <1>1, <1>2, <1>3, <1>4, <1>5, <1>6, <1>7, <1>8 DEF IInv, Dialogues, Dialogue

(* A call that returns has read everything there is.                         *)
LEMMA ReturnsEmpty ==
  ASSUME IInv, NEW c \in Clients, Return(c)
  PROVE  /\ req[c] = <<>> /\ resp[c] = <<>>
         /\ \A w \in Workers : client[w] = c => unwritten[w] = <<>>
<1>1. command(c).op \in Requests /\ Len(got[c]) = Due(command(c).op, got[c])
  BY DEF IInv, Dialogues, Dialogue, Asked, Return
<1>2. got[c] \in Seq(Nat) /\ resp[c] \in Seq(Nat) /\ Asked(c) /\ Answered(c)
      /\ cpc[c] = "receive" /\ alive[c]
  BY DEF IInv, Types, Dialogues, Dialogue, Return
<1>3. got[c] # <<>>
  BY <1>1, NothingWantsWords
<1>4. req[c] = <<>>
  BY <1>2, <1>3 DEF Asked
<1>5. PICK w \in Workers : client[w] = c
  BY <1>2, <1>3, <1>4 DEF Answered
<1>6. unwritten[w] \in Seq(Nat) /\ resp[c] \o unwritten[w] \in Seq(Nat)
  BY <1>2, ConcatProperties DEF IInv, Types
<1>7. resp[c] \o unwritten[w] = <<>>
  BY <1>1, <1>2, <1>4, <1>5, <1>6, NothingIsLeft DEF Answered
<1>8. resp[c] = <<>> /\ unwritten[w] = <<>>
  BY <1>2, <1>6, <1>7, EmptyWhole
<1>9. \A v \in Workers : client[v] = c => v = w
  BY <1>5, SessionAssumption DEF IInv, Pairing
<1> QED
  BY <1>4, <1>8, <1>9

(* A call returns with its whole answer: nothing stays in the FIFO and with *)
(* the thread.                                                              *)
LEMMA ReturnInv ==
  ASSUME IInv, NEW c \in Clients, Return(c)
  PROVE  IInv'
<1>. USE DEF Return, CGoto, threadVars, lineVars, storeVars
<1>1. Types'
  BY SessionAssumption DEF IInv, Types, Places
<1>2. Pairing'
  BY PairingStays DEF IInv, Types
<1>3. Sessions'
  <2>1. command(c).op \in Requests /\ Len(got[c]) = Due(command(c).op, got[c])
    BY DEF IInv, Dialogues, Dialogue, Asked
  <2>2. \A w \in Workers : client[w] = c => unwritten[w] = <<>>
    BY <2>1, ReturnsEmpty DEF IInv
  <2>3. cpc'[c] = "ready" /\ \A d \in Clients \ {c} : cpc'[d] = cpc[d] /\ resp'[d] = resp[d]
    BY DEF IInv, Types
  <2> QED
    BY <2>2, <2>3, SessionsStay
<1>4. ASSUME NEW d \in Clients, d # c PROVE Dialogue(d)'
  BY <1>4 DEF IInv, Types, Dialogues, Dialogue, Quiet, Asked, Answered, Counts, command
<1>5. Quiet(c)'
  <2>1. req[c] = <<>> /\ resp[c] = <<>>
    BY ReturnsEmpty
  <2> QED
    BY <2>1 DEF IInv, Types, Quiet
<1>6. Asked(c)'
  BY DEF IInv, Types, Sessions, SessionOf, Dialogues, Dialogue, Quiet, Asked, Counts, command
<1>7. Answered(c)'
  BY DEF IInv, Types, Dialogues, Dialogue, Quiet, Asked, Answered, command
<1>8. Counts(c)'
  BY SessionAssumption DEF IInv, Types, Dialogues, Dialogue, Counts
<1> QED
  BY <1>1, <1>2, <1>3, <1>4, <1>5, <1>6, <1>7, <1>8 DEF IInv, Dialogues, Dialogue

(* ems_quit comes after the last answer (api.c:30-57).                      *)
LEMMA SendQuitInv ==
  ASSUME IInv, NEW c \in Clients, SendQuit(c)
  PROVE  IInv'
<1>. USE DEF SendQuit, Send, CGoto, threadVars, lineVars, storeVars
<1>1. Types'
  <2>1. req[c] = <<>>
    BY DEF IInv, Dialogues, Dialogue, Quiet
  <2>2. Append(req[c], Quit) \in Seq(Requests \cup {Quit})
    BY DEF IInv, Types
  <2>3. req' \in [Clients -> Seq(Requests \cup {Quit})]
    BY <2>2 DEF IInv, Types
  <2> QED
    BY <2>3 DEF IInv, Types, Places
<1>2. Pairing'
  BY PairingStays DEF IInv, Types
<1>3. Sessions'
  <2>1. cpc[c] = "ready" /\ \A w \in Workers : client[w] = c => unwritten[w] = <<>>
    BY DEF IInv, Types, Sessions, SessionOf
  <2>2. cpc'[c] = "gone" /\ \A d \in Clients \ {c} : cpc'[d] = cpc[d] /\ resp'[d] = resp[d]
    BY DEF IInv, Types
  <2> QED
    BY <2>1, <2>2, SessionsStay
<1>4. ASSUME NEW d \in Clients, d # c PROVE Dialogue(d)'
  BY <1>4 DEF IInv, Types, Dialogues, Dialogue, Quiet, Asked, Answered, Counts, command
<1>5. Quiet(c)'
  <2>1. req[c] = <<>> /\ resp[c] = <<>> /\ got[c] = <<>>
    BY DEF IInv, Dialogues, Dialogue, Quiet
  <2>2. req'[c] = <<Quit>>
    BY <2>1 DEF IInv, Types
  <2> QED
    BY <2>1, <2>2 DEF IInv, Types, Quiet
<1>6. Asked(c)'
  BY DEF IInv, Types, Sessions, SessionOf, Dialogues, Dialogue, Quiet, Asked, Counts, command
<1>7. Answered(c)'
  BY DEF IInv, Types, Dialogues, Dialogue, Quiet, Asked, Answered, command
<1>8. Counts(c)'
  BY SessionAssumption DEF IInv, Types, Dialogues, Dialogue, Counts
<1> QED
  BY <1>1, <1>2, <1>3, <1>4, <1>5, <1>6, <1>7, <1>8 DEF IInv, Dialogues, Dialogue

(* A client that dies leaves everything as it is.                           *)
LEMMA DiesInv ==
  ASSUME IInv, NEW c \in Clients, Dies(c)
  PROVE  IInv'
<1>. USE DEF Dies, Fault, threadVars, lineVars, storeVars
<1>1. Types'
  BY SessionAssumption DEF IInv, Types, Places
<1>2. Pairing'
  BY DEF IInv, Types, Pairing
<1>3. Sessions'
  BY SessionAssumption DEF IInv, Types, Pairing, Sessions, SessionOf, Dialogues, Dialogue, Quiet
<1>4. ASSUME NEW d \in Clients, d # c PROVE Dialogue(d)'
  BY <1>4 DEF IInv, Types, Dialogues, Dialogue, Quiet, Asked, Answered, Counts, command
<1>5. Quiet(c)'
  BY DEF IInv, Types, Dialogues, Dialogue, Quiet, Asked
<1>6. Asked(c)'
  BY DEF IInv, Types, Sessions, SessionOf, Dialogues, Dialogue, Quiet, Asked, Counts, command
<1>7. Answered(c)'
  BY DEF IInv, Types, Dialogues, Dialogue, Quiet, Asked, Answered, command
<1>8. Counts(c)'
  BY SessionAssumption DEF IInv, Types, Dialogues, Dialogue, Counts
<1> QED
  BY <1>1, <1>2, <1>3, <1>4, <1>5, <1>6, <1>7, <1>8 DEF IInv, Dialogues, Dialogue

-----------------------------------------------------------------------------
(* Into the line and into a session. *)

(* Only a client that has not asked yet joins the line (main_server.c:       *)
(* 218-244, api.c:14-30).                                                    *)
LEMMA SetupInv ==
  ASSUME IInv, NEW c \in Clients, Setup(c)
  PROVE  IInv'
<1>. USE DEF Setup, CGoto, Join, Fault, threadVars, lineVars, storeVars
<1>1. Types'
  <2>1. Append(line, c) \in Seq(Clients)
    BY DEF IInv, Types
  <2>2. line' \in Seq(Clients) /\ client' = client
    BY <2>1 DEF IInv, Types
  <2>3. cpc' \in [Clients -> Places] /\ faults' \in 0 .. MaxFaults
    BY SessionAssumption DEF IInv, Types, Places
  <2> QED
    BY <2>2, <2>3 DEF IInv, Types
<1>2. ASSUME NEW w \in Workers PROVE client[w] # c
  <2>1. cpc[c] = "away" /\ c # NULL
    BY SessionAssumption
  <2>2. SessionOf(w) /\ spc[w] \in Stages
    BY DEF IInv, Types, Sessions
  <2> QED
    BY <2>1, <2>2 DEF SessionOf, Stages
<1>3. \A i \in 1 .. Len(line) : line[i] # c
  BY DEF IInv, Pairing
<1>4. cpc'[c] = "open_req" /\ \A d \in Clients \ {c} : cpc'[d] = cpc[d]
  BY DEF IInv, Types
<1>5. Pairing'
  <2>1. CASE UNCHANGED lineVars
    BY <1>4, <2>1, PairingStays
  <2>2. CASE Join(c)
    <3>1. \A i \in 1 .. Len(line') : IF i = Len(line) + 1 THEN line'[i] = c
                                     ELSE i \in 1 .. Len(line) /\ line'[i] = line[i]
      <4>1. line \in Seq(Clients) /\ Len(line) \in Nat /\ line' = Append(line, c)
        BY <2>2 DEF IInv, Types
      <4>2. Len(line') = Len(line) + 1 /\ line'[Len(line) + 1] = c
            /\ \A i \in 1 .. Len(line) : line'[i] = line[i]
        BY <4>1, AppendProperties
      <4> QED
        BY <4>1, <4>2
    <3>2. \A i \in 1 .. Len(line) : line[i] \in Clients
      BY DEF IInv, Types
    <3> QED
      BY <1>2, <1>3, <1>4, <2>2, <3>1, <3>2 DEF IInv, Pairing
  <2> QED
    BY <2>1, <2>2
<1>6. Sessions'
  <2>. SUFFICES ASSUME NEW w \in Workers PROVE SessionOf(w)'
    BY DEF Sessions
  <2>1. SessionOf(w) /\ client[w] \in Clients \cup {NULL} /\ client[w] # c
    BY <1>2 DEF IInv, Types, Sessions
  <2>2. client'[w] = client[w] /\ spc'[w] = spc[w] /\ unwritten'[w] = unwritten[w] /\ resp' = resp
    OBVIOUS
  <2>. HIDE DEF Setup
  <2> QED
    BY <1>4, <2>1, <2>2 DEF SessionOf
<1>7. ASSUME NEW d \in Clients PROVE Dialogue(d)'
  <2>. Dialogue(d)
    BY DEF IInv, Dialogues
  <2> QED
    BY <1>4 DEF IInv, Types, Dialogue, Quiet, Asked, Answered, Counts, command
<1> QED
  BY <1>1, <1>5, <1>6, <1>7 DEF IInv, Dialogues

(* A free thread takes the first client of the line and nobody else's        *)
(* (main_server.c:306-325).                                                  *)
LEMMA StartSessionInv ==
  ASSUME IInv, NEW w \in Workers, StartSession(w)
  PROVE  IInv'
<1>. USE DEF StartSession, Serve, SGoto, clientVars, storeVars
<1>. PICK c \in Clients : c = Head(line)
  <2>1. line \in Seq(Clients) /\ line # <<>>
    BY DEF IInv, Types
  <2> QED
    BY <2>1, HeadTailProperties
<1>1. line # <<>> /\ line \in Seq(Clients) /\ Len(line) \in Nat \ {0} /\ c = line[1]
  BY DEF IInv, Types
<1>2. Len(line') = Len(line) - 1 /\ \A i \in 1 .. Len(line') : line'[i] = line[i + 1] /\ i + 1 \in 2 .. Len(line)
  BY <1>1, HeadTailProperties
<1>3. cpc[c] = "open_req" /\ \A v \in Workers : client[v] # c
  BY <1>1 DEF IInv, Pairing
<1>4. client'[w] = c /\ client[w] = NULL /\ \A v \in Workers \ {w} : client'[v] = client[v]
  BY DEF IInv, Types
<1>5. Types'
  <2>1. line' \in Seq(Clients)
    BY <1>1
  <2>2. client' \in [Workers -> Clients \cup {NULL}] /\ spc' \in [Workers -> Stages]
    BY DEF IInv, Types, Stages
  <2> QED
    BY <2>1, <2>2 DEF IInv, Types
<1>6. Pairing'
  <2>1. \A i \in 1 .. Len(line') : line'[i] # c
    BY <1>1, <1>2 DEF IInv, Pairing
  <2>2. \A i, j \in 1 .. Len(line') : line'[i] = line'[j] => i = j
    BY <1>1, <1>2 DEF IInv, Pairing
  <2>3. \A i \in 1 .. Len(line') : cpc'[line'[i]] = "open_req" /\ \A v \in Workers : client'[v] # line'[i]
    BY <1>1, <1>2, <1>4, <2>1 DEF IInv, Pairing
  <2>4. \A u, v \in Workers : client'[u] = client'[v] /\ client'[u] # NULL => u = v
    BY <1>3, <1>4 DEF IInv, Pairing
  <2> QED
    BY <2>2, <2>3, <2>4 DEF Pairing
<1>7. Sessions'
  <2>. SUFFICES ASSUME NEW v \in Workers PROVE SessionOf(v)'
    BY DEF Sessions
  <2>1. SessionOf(v) /\ c # NULL
    BY SessionAssumption DEF IInv, Sessions
  <2>2. spc'[v] = (IF v = w THEN "open_req" ELSE spc[v])
    BY DEF IInv, Types
  <2>3. cpc' = cpc /\ resp' = resp /\ unwritten' = unwritten
    OBVIOUS
  <2>. HIDE DEF StartSession
  <2>4. CASE v = w
    BY <1>3, <1>4, <2>1, <2>2, <2>3, <2>4 DEF SessionOf
  <2>5. CASE v # w
    BY <1>4, <2>1, <2>2, <2>3, <2>5 DEF SessionOf
  <2> QED
    BY <2>4, <2>5
<1>8. ASSUME NEW d \in Clients PROVE Dialogue(d)'
  <2>. Dialogue(d)
    BY DEF IInv, Dialogues
  <2> QED
    BY <1>3, <1>4, SessionAssumption DEF Dialogue, Quiet, Asked, Answered, Counts, command
<1> QED
  BY <1>5, <1>6, <1>7, <1>8 DEF IInv, Dialogues

-----------------------------------------------------------------------------
(* The session thread's steps. *)

(* Both sides of an open go on together (main_server.c:333-368).             *)
LEMMA OpensInv ==
  ASSUME IInv, NEW w \in Workers, client[w] # NULL, NEW from, NEW to, Opens(w, from, to),
         <<from, to>> \in {<<"open_req", "open_resp">>, <<"open_resp", "hello">>}
  PROVE  IInv'
<1>. USE DEF Opens, SGoto, CGoto, lineVars, storeVars
<1>. PICK c \in Clients : c = client[w]
  BY DEF IInv, Types
<1>0. from \in {"open_req", "open_resp"} /\ to \in {"open_resp", "hello"}
  OBVIOUS
<1>1. cpc[c] = from /\ spc[w] = from /\ cpc'[c] = to /\ spc'[w] = to
      /\ \A d \in Clients \ {c} : cpc'[d] = cpc[d]
  BY DEF IInv, Types
<1>2. \A v \in Workers \ {w} : spc'[v] = spc[v] /\ client[v] # c
  BY SessionAssumption DEF IInv, Types, Pairing
<1>3. resp[c] = <<>> /\ req[c] = <<>> /\ got[c] = <<>> /\ unwritten[w] = <<>>
  BY <1>0, <1>1 DEF IInv, Dialogues, Dialogue, Quiet, Sessions, SessionOf
<1>4. Types'
  BY <1>0 DEF IInv, Types, Places, Stages
<1>5. Pairing'
  <2>1. \A i \in 1 .. Len(line) : line[i] \in Clients
    BY DEF IInv, Types
  <2>2. \A i \in 1 .. Len(line) : line[i] # c
    BY DEF IInv, Pairing
  <2> QED
    BY <1>1, <2>1, <2>2 DEF IInv, Pairing
<1>6. Sessions'
  <2>. SUFFICES ASSUME NEW v \in Workers PROVE SessionOf(v)'
    BY DEF Sessions
  <2>1. CASE v = w
    BY <1>0, <1>1, <1>3, <2>1 DEF SessionOf
  <2>2. CASE v # w
    BY <1>1, <1>2, <2>2 DEF IInv, Types, Sessions, SessionOf
  <2> QED
    BY <2>1, <2>2
<1>7. ASSUME NEW d \in Clients PROVE Dialogue(d)'
  <2>. Dialogue(d)
    BY DEF IInv, Dialogues
  <2>1. CASE d = c
    BY <1>0, <1>1, <1>3, <2>1 DEF Dialogue, Quiet, Asked, Answered, Counts
  <2>2. CASE d # c
    BY <1>1, <2>2 DEF Dialogue, Quiet, Asked, Answered, Counts, command
  <2> QED
    BY <2>1, <2>2
<1> QED
  BY <1>4, <1>5, <1>6, <1>7 DEF IInv, Dialogues
(* A thread that leaves its client takes nothing with it but what it had to  *)
(* write.                                                                    *)
LEMMA LeaveInv ==
  ASSUME IInv, NEW w \in Workers, NEW c \in Clients, client[w] = c, Leave(w),
         spc' = [spc EXCEPT ![w] = "none"], unwritten' = [unwritten EXCEPT ![w] = <<>>],
         UNCHANGED <<clientVars, resp>>
  PROVE  /\ client' \in [Workers -> Clients \cup {NULL}] /\ spc' \in [Workers -> Stages]
         /\ unwritten' \in [Workers -> Seq(Nat)] /\ line' \in Seq(Clients)
         /\ Pairing' /\ Sessions'
         /\ \A v \in Workers : client'[v] = (IF v = w THEN NULL ELSE client[v])
                               /\ unwritten'[v] = (IF v = w THEN <<>> ELSE unwritten[v])
         /\ \A v \in Workers : client'[v] # c
<1>. USE DEF Leave, clientVars
<1>1. /\ client' \in [Workers -> Clients \cup {NULL}] /\ spc' \in [Workers -> Stages]
      /\ unwritten' \in [Workers -> Seq(Nat)] /\ line' \in Seq(Clients)
  BY DEF IInv, Types, Stages
<1>2. c # NULL /\ \A v \in Workers :
         /\ client'[v] = (IF v = w THEN NULL ELSE client[v])
         /\ unwritten'[v] = (IF v = w THEN <<>> ELSE unwritten[v])
         /\ spc'[v] = (IF v = w THEN "none" ELSE spc[v])
  BY SessionAssumption DEF IInv, Types
<1>3. \A v \in Workers : client'[v] # c
  BY <1>2 DEF IInv, Pairing
<1>4. Pairing'
  <2>1. \A i \in 1 .. Len(line) : line[i] \in Clients
    BY DEF IInv, Types
  <2>2. \A i \in 1 .. Len(line) : line[i] # NULL
    BY <2>1, SessionAssumption
  <2> QED
    BY <1>2, <2>2 DEF IInv, Pairing
<1>5. Sessions'
  BY <1>2 DEF IInv, Sessions, SessionOf
<1> QED
  BY <1>1, <1>2, <1>3, <1>4, <1>5

(* A session that ends at a client that is dead, gone or not yet in a call   *)
(* leaves no call without its answer.                                        *)
LEMMA EndSessionInv ==
  ASSUME IInv, NEW w \in Workers, NEW c \in Clients, client[w] = c, EndSession(w),
         faults' \in 0 .. MaxFaults,
         \/ req' = req /\ (~Reads(c) \/ cpc[c] # "receive")
         \/ req' = [req EXCEPT ![c] = <<>>] /\ cpc[c] = "gone"
  PROVE  IInv'
<1>. USE DEF EndSession, SGoto, Reads, clientVars, storeVars
<1>1. /\ client' \in [Workers -> Clients \cup {NULL}] /\ spc' \in [Workers -> Stages]
      /\ unwritten' \in [Workers -> Seq(Nat)] /\ line' \in Seq(Clients)
      /\ Pairing' /\ Sessions'
      /\ \A v \in Workers : client'[v] = (IF v = w THEN NULL ELSE client[v])
                            /\ unwritten'[v] = (IF v = w THEN <<>> ELSE unwritten[v])
      /\ \A v \in Workers : client'[v] # c
  BY LeaveInv
<1>2. Types'
  <2>0. <<>> \in Seq(Requests \cup {Quit})
    OBVIOUS
  <2>1. req \in [Clients -> Seq(Requests \cup {Quit})] /\ <<>> \in Seq(Requests \cup {Quit})
    BY <2>0, Zenon DEF IInv, Types
  <2>2. req' \in [Clients -> Seq(Requests \cup {Quit})]
    BY <2>1
  <2> QED
    BY <1>1, <2>2 DEF IInv, Types
<1>0. (req'[c] = req[c] \/ (cpc[c] = "gone" /\ req'[c] = <<>>)) /\ \A d \in Clients \ {c} : req'[d] = req[d]
  BY DEF IInv, Types
<1>3. ASSUME NEW d \in Clients PROVE Dialogue(d)'
  <2>. Dialogue(d)
    BY DEF IInv, Dialogues
  <2>1. d # NULL
    BY SessionAssumption
  <2>2. CASE d = c
    BY <1>0, <1>1, <2>2 DEF Dialogue, Quiet, Asked, Answered, Counts, command
  <2>3. CASE d # c
    <3>1. req'[d] = req[d] /\ \A v \in Workers : (client'[v] = d <=> client[v] = d) /\ (v # w => unwritten'[v] = unwritten[v])
      BY <1>0, <1>1, <2>1, <2>3
    <3>2. cpc' = cpc /\ alive' = alive /\ resp' = resp /\ got' = got /\ served' = served
          /\ fetched' = fetched /\ script' = script /\ command(d)' = command(d)
      BY DEF command
    <3>. HIDE DEF EndSession
    <3> QED
      BY <2>3, <3>1, <3>2 DEF Dialogue, Quiet, Asked, Answered, Counts
  <2> QED
    BY <2>2, <2>3
<1> QED
  BY <1>1, <1>2, <1>3 DEF IInv, Dialogues

(* main_server.c:333-349 and 357-367: the client is not in a call yet.       *)
LEMMA OpenFailsInv ==
  ASSUME IInv, NEW w \in Workers, client[w] # NULL, OpenFails(w)
  PROVE  IInv'
<1>1. PICK c \in Clients : c = client[w]
  BY DEF IInv, Types
<1>2. cpc[c] # "receive"
  BY <1>1 DEF IInv, Sessions, SessionOf, OpenFails
<1>3. faults' \in 0 .. MaxFaults
  <2>1. faults \in 0 .. MaxFaults
    BY DEF IInv, Types
  <2> QED
    BY <2>1, SessionAssumption DEF OpenFails, Fault
<1> QED
  BY <1>1, <1>2, <1>3, EndSessionInv DEF OpenFails

(* The session_id is the first word in an empty FIFO (main_server.c:370-374).*)
LEMMA HelloInv ==
  ASSUME IInv, NEW w \in Workers, client[w] # NULL, Hello(w)
  PROVE  IInv'
<1>. PICK c \in Clients : c = client[w]
  BY DEF IInv, Types
<1>1. CASE ~Reads(c) /\ EndSession(w)
  <2>1. faults' \in 0 .. MaxFaults /\ UNCHANGED req
    BY DEF Hello, IInv, Types
  <2> QED
    BY <1>1, <2>1, EndSessionInv
<1>2. CASE /\ Reads(c) /\ resp' = [resp EXCEPT ![c] = Append(@, 0)] /\ SGoto(w, "serve")
           /\ UNCHANGED <<lineVars, clientVars, unwritten, storeVars, served>>
  <2>. UNCHANGED <<req, faults, lineVars, clientVars, unwritten, storeVars, served>>
    BY <1>2 DEF Hello
  <2>. USE DEF SGoto, lineVars, clientVars, storeVars
  <2>1. resp[c] = <<>> /\ cpc[c] = "hello" /\ unwritten[w] = <<>> /\ spc[w] = "hello"
    BY DEF IInv, Sessions, SessionOf, Hello
  <2>2. resp' = [resp EXCEPT ![c] = <<0>>]
    BY <1>2, <2>1
  <2>3. <<0>> \in Seq(Nat) /\ Len(<<0>>) <= RespRoom
    BY SessionAssumption
  <2>4. spc'[w] = "serve" /\ \A v \in Workers \ {w} : spc'[v] = spc[v] /\ client[v] # c
    BY <1>2, SessionAssumption DEF IInv, Types, Pairing
  <2>5. resp'[c] = <<0>> /\ \A d \in Clients \ {c} : resp'[d] = resp[d]
    BY <2>2 DEF IInv, Types
  <2>6. Types'
    <3>1. resp' \in [Clients -> Seq(Nat)]
      BY <2>2, <2>3 DEF IInv, Types
    <3>2. spc' \in [Workers -> Stages]
      BY <1>2 DEF IInv, Types, Stages
    <3> QED
      BY <3>1, <3>2 DEF IInv, Types
  <2>7. Pairing'
    BY DEF IInv, Pairing
  <2>8. Sessions'
    <3>. SUFFICES ASSUME NEW v \in Workers PROVE SessionOf(v)'
      BY DEF Sessions
    <3>1. CASE v = w
      BY <2>1, <2>4, <3>1 DEF SessionOf
    <3>2. CASE v # w
      <4>1. SessionOf(v) /\ client[v] \in Clients \cup {NULL} /\ client[v] # c /\ spc'[v] = spc[v]
        BY <2>4, <3>2 DEF IInv, Types, Sessions
      <4> QED
        BY <2>5, <4>1 DEF SessionOf
    <3> QED
      BY <3>1, <3>2
  <2>9. ASSUME NEW d \in Clients PROVE Dialogue(d)'
    <3>. Dialogue(d)
      BY DEF IInv, Dialogues
    <3>1. CASE d = c
      BY <2>1, <2>3, <2>5, <3>1 DEF Dialogue, Quiet, Asked, Answered, Counts
    <3>2. CASE d # c
      BY <2>5, <3>2 DEF Dialogue, Quiet, Asked, Answered, Counts, command
    <3> QED
      BY <3>1, <3>2
  <2> QED
    BY <2>6, <2>7, <2>8, <2>9 DEF IInv, Dialogues
<1> QED
  BY <1>1, <1>2 DEF Hello

(* What is known of a request that is read: it is the client's last command, *)
(* and no word of an answer is there yet; or it is the QUIT.                 *)
LEMMA RequestRead ==
  ASSUME IInv, NEW w \in Workers, NEW c \in Clients, client[w] = c, ReadsRequest(w)
  PROVE  /\ req[c] # <<>> /\ req' = [req EXCEPT ![c] = <<>>]
         /\ \/ cpc[c] = "gone" /\ Head(req[c]) = Quit
            \/ /\ cpc[c] = "receive" /\ Head(req[c]) = command(c).op /\ command(c).op \in Requests
               /\ served[c] < fetched[c] /\ got[c] = <<>> /\ resp[c] = <<>>
<1>1. req[c] # <<>> /\ req' = [req EXCEPT ![c] = Tail(req[c])] /\ spc[w] = "serve" /\ Dialogue(c)
      /\ cpc[c] \in {"hello", "ready", "receive", "gone"}
  BY SessionAssumption DEF ReadsRequest, IInv, Dialogues, Sessions, SessionOf
<1>2. \A op : <<op>> # <<>> /\ Tail(<<op>>) = <<>> /\ Head(<<op>>) = op
  OBVIOUS
<1>3. CASE cpc[c] = "receive"
  <2>1. req[c] = <<command(c).op>> /\ command(c).op \in Requests /\ served[c] < fetched[c]
        /\ got[c] = <<>> /\ resp[c] = <<>>
    BY <1>1, <1>3 DEF Dialogue, Asked
  <2> QED
    BY <1>1, <1>2, <1>3, <2>1
<1>4. CASE cpc[c] # "receive"
  <2>1. cpc[c] = "gone" /\ req[c] = <<Quit>>
    BY <1>1, <1>4 DEF Dialogue, Quiet
  <2> QED
    BY <1>1, <1>2, <2>1
<1> QED
  BY <1>3, <1>4

(* A request is carried out: its whole answer is with the thread             *)
(* (main_server.c:376-541).                                                  *)
LEMMA ExecuteInv ==
  ASSUME IInv, NEW w \in Workers, client[w] # NULL, Execute(w)
  PROVE  IInv'
<1>. PICK c \in Clients : c = client[w]
  BY DEF IInv, Types
<1>1. ReadsRequest(w) /\ Head(req[c]) \in Requests /\ unwritten[w] = <<>> /\ spc[w] = "serve"
      /\ served' = [served EXCEPT ![c] = @ + 1]
      /\ UNCHANGED <<lineVars, clientVars, resp, spc, faults>>
  BY DEF Execute, Counted, ReadsRequest
<1>. PICK op \in Requests : op = command(c).op
  BY <1>1, RequestRead DEF Requests, Quit
<1>2. cpc[c] = "receive" /\ Head(req[c]) = op /\ served[c] < fetched[c] /\ got[c] = <<>> /\ resp[c] = <<>>
      /\ req' = [req EXCEPT ![c] = <<>>]
  BY <1>1, RequestRead DEF Requests, Quit
<1>. PICK answer \in AnswersTo(op) :
       StoreCall(op, answer) /\ unwritten' = [unwritten EXCEPT ![w] = answer]
  BY <1>2 DEF Execute
<1>3. answer \in Seq(Nat)
  BY WholeIsNatural
<1>4. <<>> \o (<<>> \o answer) = answer
  BY <1>3
<1>5. unwritten'[w] = answer /\ \A v \in Workers \ {w} : unwritten'[v] = unwritten[v] /\ client[v] # c
  BY SessionAssumption DEF IInv, Types, Pairing
<1>6. req'[c] = <<>> /\ served'[c] = served[c] + 1 /\ served[c] \in Nat /\ fetched[c] \in Nat
      /\ \A d \in Clients \ {c} : req'[d] = req[d] /\ served'[d] = served[d]
  BY <1>1, <1>2 DEF IInv, Types
<1>. USE DEF lineVars, clientVars, storeVars
<1>7. Types'
  <2>1. req' \in [Clients -> Seq(Requests \cup {Quit})] /\ served' \in [Clients -> Nat]
    BY <1>1, <1>2 DEF IInv, Types
  <2>2. unwritten' \in [Workers -> Seq(Nat)]
    BY <1>3 DEF IInv, Types
  <2>3. stored' \in BOOLEAN /\ kept' \in BOOLEAN
    <3>1. stored \in BOOLEAN /\ kept \in BOOLEAN
      BY DEF IInv, Types
    <3> QED
      BY <3>1, Zenon DEF StoreCall, storeVars
  <2> QED
    BY <1>1, <2>1, <2>2, <2>3 DEF IInv, Types
<1>8. Pairing'
  BY <1>1 DEF IInv, Pairing
<1>9. Sessions'
  BY <1>1, <1>2, <1>5 DEF IInv, Sessions, SessionOf
<1>10. ASSUME NEW d \in Clients PROVE Dialogue(d)'
  <2>. Dialogue(d)
    BY DEF IInv, Dialogues
  <2>1. command(d)' = command(d)
    BY <1>1 DEF command
  <2>2. CASE d = c
    <3>1. \A v \in Workers : client[v] = c <=> v = w
      BY <1>5
    <3>2. Quiet(c)' /\ Asked(c)' /\ Counts(c)'
      BY <1>1, <1>2, <1>6, <2>1, <2>2 DEF Dialogue, Quiet, Asked, Counts
    <3>3. Answered(c)'
      BY <1>1, <1>2, <1>4, <1>5, <2>1, <2>2, <3>1 DEF Answered
    <3> QED
      BY <2>2, <3>2, <3>3 DEF Dialogue
  <2>3. CASE d # c
    BY <1>1, <1>5, <1>6, <2>1, <2>3 DEF Dialogue, Quiet, Asked, Answered, Counts
  <2> QED
    BY <2>2, <2>3
<1> QED
  BY <1>7, <1>8, <1>9, <1>10 DEF IInv, Dialogues

(* A client that is left without an answer has no part of one                *)
(* (main_server.c:476-481, 509-513).                                         *)
LEMMA ServeNoMemoryInv ==
  ASSUME IInv, NEW w \in Workers, client[w] # NULL, ServeNoMemory(w)
  PROVE  IInv'
<1>. PICK c \in Clients : c = client[w]
  BY DEF IInv, Types
<1>1. ReadsRequest(w) /\ Head(req[c]) \in Requests /\ unwritten[w] = <<>>
      /\ served' = [served EXCEPT ![c] = @ + 1] /\ Leave(w) /\ spc' = [spc EXCEPT ![w] = "none"]
      /\ UNCHANGED <<clientVars, resp, unwritten, storeVars>>
  BY DEF ServeNoMemory, Counted, ReadsRequest, Requests, SGoto
<1>2. cpc[c] = "receive" /\ served[c] < fetched[c] /\ got[c] = <<>> /\ resp[c] = <<>>
      /\ command(c).op \in Requests /\ req' = [req EXCEPT ![c] = <<>>]
  BY <1>1, RequestRead DEF Requests, Quit
<1>3. unwritten' = [unwritten EXCEPT ![w] = <<>>]
  BY <1>1 DEF IInv, Types
<1>4. /\ client' \in [Workers -> Clients \cup {NULL}] /\ spc' \in [Workers -> Stages]
      /\ unwritten' \in [Workers -> Seq(Nat)] /\ line' \in Seq(Clients)
      /\ Pairing' /\ Sessions'
      /\ \A v \in Workers : client'[v] = (IF v = w THEN NULL ELSE client[v])
                            /\ unwritten'[v] = (IF v = w THEN <<>> ELSE unwritten[v])
      /\ \A v \in Workers : client'[v] # c
  BY <1>1, <1>3, LeaveInv
<1>5. req'[c] = <<>> /\ served'[c] = served[c] + 1 /\ served[c] \in Nat /\ fetched[c] \in Nat
      /\ \A d \in Clients \ {c} : req'[d] = req[d] /\ served'[d] = served[d]
  BY <1>1, <1>2 DEF IInv, Types
<1>. USE DEF clientVars, storeVars
<1>6. Types'
  <2>1. faults' \in 0 .. MaxFaults
    BY SessionAssumption DEF ServeNoMemory, Fault, IInv, Types
  <2>2. req' \in [Clients -> Seq(Requests \cup {Quit})] /\ served' \in [Clients -> Nat]
    BY <1>1, <1>2 DEF IInv, Types
  <2> QED
    BY <1>1, <1>4, <2>1, <2>2 DEF IInv, Types
<1>7. ASSUME NEW d \in Clients PROVE Dialogue(d)'
  <2>. Dialogue(d) /\ d # NULL
    BY SessionAssumption DEF IInv, Dialogues
  <2>1. command(d)' = command(d)
    BY <1>1 DEF command
  <2>2. CASE d = c
    BY <1>1, <1>2, <1>4, <1>5, <2>1, <2>2 DEF Dialogue, Quiet, Asked, Answered, Counts
  <2>3. CASE d # c
    <3>1. req'[d] = req[d] /\ served'[d] = served[d]
      BY <1>5, <2>3
    <3>2. \A v \in Workers : (client'[v] = d <=> client[v] = d) /\ unwritten'[v] = unwritten[v]
      BY <1>1, <1>4, <2>3
    <3> QED
      BY <1>1, <2>1, <3>1, <3>2 DEF Dialogue, Quiet, Asked, Answered, Counts
  <2> QED
    BY <2>2, <2>3
<1> QED
  BY <1>4, <1>6, <1>7 DEF IInv, Dialogues

(* After a QUIT nothing is owed (main_server.c:389-404).                     *)
LEMMA ServeQuitInv ==
  ASSUME IInv, NEW w \in Workers, client[w] # NULL, ServeQuit(w)
  PROVE  IInv'
<1>. PICK c \in Clients : c = client[w]
  BY DEF IInv, Types
<1>1. ReadsRequest(w) /\ Head(req[c]) = Quit /\ EndSession(w) /\ faults' \in 0 .. MaxFaults
  BY DEF ServeQuit, IInv, Types
<1>2. cpc[c] = "gone" /\ req' = [req EXCEPT ![c] = <<>>]
  BY <1>1, RequestRead DEF Requests, Quit
<1> QED
  BY <1>1, <1>2, EndSessionInv

(* A word moves from the thread to the FIFO (io.c:48-67).                    *)
LEMMA WriteInv ==
  ASSUME IInv, NEW w \in Workers, client[w] # NULL, Write(w)
  PROVE  IInv'
<1>. PICK c \in Clients : c = client[w]
  BY DEF IInv, Types
<1>1. CASE ~Reads(c) /\ EndSession(w)
  <2>1. faults' \in 0 .. MaxFaults /\ UNCHANGED req
    BY DEF Write, IInv, Types
  <2> QED
    BY <1>1, <2>1, EndSessionInv
<1>2. CASE /\ Reads(c) /\ Len(resp[c]) < RespRoom
           /\ resp' = [resp EXCEPT ![c] = Append(@, Head(unwritten[w]))]
           /\ unwritten' = [unwritten EXCEPT ![w] = Tail(@)]
           /\ UNCHANGED <<lineVars, clientVars, spc, storeVars, served>>
  <2>. UNCHANGED <<req, faults, lineVars, clientVars, spc, storeVars, served>> /\ unwritten[w] # <<>> /\ spc[w] = "serve"
    BY <1>2 DEF Write
  <2>. USE DEF lineVars, clientVars, storeVars
  <2>1. resp[c] \in Seq(Nat) /\ unwritten[w] \in Seq(Nat) /\ got[c] \in Seq(Nat)
    BY DEF IInv, Types
  <2>2. resp'[c] = Append(resp[c], Head(unwritten[w])) /\ \A d \in Clients \ {c} : resp'[d] = resp[d]
    BY <1>2 DEF IInv, Types
  <2>3. unwritten'[w] = Tail(unwritten[w])
        /\ \A v \in Workers \ {w} : unwritten'[v] = unwritten[v] /\ client[v] # c
    BY <1>2, SessionAssumption DEF IInv, Types, Pairing
  <2>4. /\ Append(resp[c], Head(unwritten[w])) \in Seq(Nat) /\ Tail(unwritten[w]) \in Seq(Nat)
        /\ Len(Append(resp[c], Head(unwritten[w]))) = Len(resp[c]) + 1
    BY <2>1, WordMoves
  <2>5. cpc[c] = "receive" /\ req[c] = <<>>
    BY DEF IInv, Sessions, SessionOf, Dialogues, Dialogue, Asked
  <2>6. Types'
    <3>1. resp' \in [Clients -> Seq(Nat)]
      BY <1>2, <2>4 DEF IInv, Types
    <3>2. unwritten' \in [Workers -> Seq(Nat)]
      BY <1>2, <2>4 DEF IInv, Types
    <3> QED
      BY <3>1, <3>2 DEF IInv, Types
  <2>7. Pairing'
    BY DEF IInv, Pairing
  <2>8. Sessions'
    <3>. SUFFICES ASSUME NEW v \in Workers PROVE SessionOf(v)'
      BY DEF Sessions
    <3>1. CASE v = w
      BY <2>5, <3>1 DEF IInv, Sessions, SessionOf
    <3>2. CASE v # w
      <4>1. SessionOf(v) /\ client[v] \in Clients \cup {NULL} /\ client[v] # c
            /\ unwritten'[v] = unwritten[v]
        BY <2>3, <3>2 DEF IInv, Types, Sessions
      <4> QED
        BY <2>2, <4>1 DEF SessionOf
    <3> QED
      BY <3>1, <3>2
  <2>9. ASSUME NEW d \in Clients PROVE Dialogue(d)'
    <3>. Dialogue(d)
      BY DEF IInv, Dialogues
    <3>0. command(d)' = command(d)
      BY DEF command
    <3>1. CASE d = c
      <4>1. Quiet(c)' /\ Asked(c)'
        BY <2>5, <3>0, <3>1 DEF Dialogue, Quiet, Asked
      <4>2. Counts(c)'
        <5>1. Len(resp[c]) \in Nat
          BY <2>1, LenProperties
        <5> QED
          BY <1>2, <2>2, <2>4, <3>1, <5>1, SessionAssumption DEF Dialogue, Counts
      <4>3. Answered(c)'
        <5>1. got[c] \o (resp'[c] \o unwritten'[w]) = got[c] \o (resp[c] \o unwritten[w])
          <6>1. Append(resp[c], Head(unwritten[w])) \o Tail(unwritten[w]) = resp[c] \o unwritten[w]
            BY <2>1, WordMoves
          <6> QED
            BY <2>2, <2>3, <6>1, Zenon
        <5>2. \A v \in Workers : client[v] = c <=> v = w
          BY <2>3
        <5> QED
          BY <2>5, <3>0, <3>1, <5>1, <5>2 DEF Dialogue, Answered
      <4> QED
        BY <3>1, <4>1, <4>2, <4>3 DEF Dialogue
    <3>2. CASE d # c
      BY <2>2, <2>3, <3>0, <3>2 DEF Dialogue, Quiet, Asked, Answered, Counts
    <3> QED
      BY <3>1, <3>2
  <2> QED
    BY <2>6, <2>7, <2>8, <2>9 DEF IInv, Dialogues
<1> QED
  BY <1>1, <1>2 DEF Write

-----------------------------------------------------------------------------
LEMMA StutterInv == IInv /\ UNCHANGED emsVars => IInv'
<1>. SUFFICES ASSUME IInv, UNCHANGED emsVars PROVE IInv'
  OBVIOUS
<1>. USE DEF emsVars, lineVars, sessionVars, clientVars, threadVars, storeVars
<1>1. Types' /\ Pairing' /\ Sessions'
  BY DEF IInv, Types, Pairing, Sessions, SessionOf
<1>2. ASSUME NEW c \in Clients PROVE Dialogue(c)'
  BY DEF IInv, Dialogues, Dialogue, Quiet, Asked, Answered, Counts, command
<1> QED
  BY <1>1, <1>2 DEF IInv, Dialogues

LEMMA InvStep == IInv /\ [Next]_emsVars => IInv'
<1>. SUFFICES ASSUME IInv, [Next]_emsVars PROVE IInv'
  OBVIOUS
<1>1. ASSUME NEW c \in Clients, ClientStep(c) PROVE IInv'
  BY <1>1, ReadHelloInv, ExitEarlyInv, RequestInv, SkipInv, ReceiveInv, ReturnInv, SendQuitInv
  DEF ClientStep
<1>2. ASSUME NEW w \in Workers, SessionStep(w) PROVE IInv'
  BY <1>2, OpensInv, HelloInv, ExecuteInv, ServeQuitInv, WriteInv DEF SessionStep
<1>3. ASSUME NEW w \in Workers, SessionFault(w) PROVE IInv'
  BY <1>3, OpenFailsInv, ServeNoMemoryInv DEF SessionFault
<1> QED
  BY <1>1, <1>2, <1>3, SetupInv, DiesInv, StartSessionInv, StutterInv DEF Next

LEMMA InvHolds == Spec => []IInv
BY InitInv, InvStep, PTL DEF Spec

(* Clients, threads and FIFOs have their types: no client ever has two       *)
(* requests on their way, none is served more often than it asked, and no    *)
(* FIFO holds more than it has room for (api.c, main_server.c:370-541).      *)
THEOREM SessionTypes == Spec => []TypeOK
<1>1. IInv => TypeOK
  <2>. SUFFICES ASSUME IInv PROVE TypeOK
    OBVIOUS
  <2>1. \A c \in Clients : Dialogue(c) /\ req[c] \in Seq(Requests \cup {Quit})
    BY DEF IInv, Types, Dialogues
  <2>3. ASSUME NEW c \in Clients PROVE Len(req[c]) <= 1
    <3>1. CASE req[c] = <<>>
      BY <3>1
    <3>2. CASE req[c] # <<>>
      <4>1. PICK op : req[c] = <<op>>
        BY <2>1, <3>2 DEF Dialogue, Quiet, Asked
      <4> QED
        BY <4>1
    <3> QED
      BY <3>1, <3>2
  <2> QED
    BY <2>1, <2>3 DEF IInv, Types, Places, Stages, Dialogue, Counts, TypeOK
<1> QED
  BY <1>1, InvHolds, PTL

(* No answer is cut, mixed with another or left behind: what the client has, *)
(* its FIFO and its thread hold together is the whole answer to its request, *)
(* and nothing between two calls (api.c:76-195, main_server.c:408-541).      *)
THEOREM WholeAnswers == Spec => []AnswersAreWhole
<1>1. IInv => AnswersAreWhole
  <2>. SUFFICES ASSUME IInv, NEW c \in Clients, alive[c]
                PROVE  /\ cpc[c] = "ready" => Left(c) = <<>>
                       /\ cpc[c] = "receive" =>
                            IF req[c] # <<>> \/ Serving(c) = {} THEN got[c] \o Left(c) = <<>>
                            ELSE got[c] \o Left(c) \in AnswersTo(command(c).op)
    BY Zenon DEF AnswersAreWhole
  <2>1. Dialogue(c) /\ got[c] \in Seq(Nat) /\ resp[c] \in Seq(Nat) /\ c # NULL
    BY SessionAssumption DEF IInv, Types, Dialogues
  <2>2. \A s \in Seq(Nat) : s \o <<>> = s /\ <<>> \o s = s
    OBVIOUS
  <2>3. CASE Serving(c) = {}
    <3>1. Left(c) = resp[c]
      BY <2>1, <2>2, <2>3 DEF Left
    <3>2. \A w \in Workers : client[w] # c
      BY <2>3 DEF Serving
    <3>3. cpc[c] = "ready" => resp[c] = <<>>
      BY <2>1 DEF Dialogue, Quiet
    <3>4. cpc[c] = "receive" => got[c] = <<>> /\ resp[c] = <<>>
      BY <2>1, <3>2 DEF Dialogue, Asked, Answered
    <3> QED
      BY <2>2, <2>3, <3>1, <3>3, <3>4
  <2>4. CASE Serving(c) # {}
    <3>1. PICK w \in Workers : client[w] = c /\ w = CHOOSE v \in Serving(c) : TRUE
      BY <2>4 DEF Serving
    <3>2. Left(c) = resp[c] \o unwritten[w]
      BY <2>4, <3>1 DEF Left
    <3>3. cpc[c] = "ready" => resp[c] = <<>> /\ unwritten[w] = <<>>
      BY <2>1, <3>1 DEF Dialogue, Quiet, IInv, Sessions, SessionOf
    <3>4. cpc[c] = "receive" /\ req[c] # <<>> => got[c] = <<>> /\ resp[c] = <<>> /\ unwritten[w] = <<>>
      BY <2>1, <3>1 DEF Dialogue, Asked
    <3>5. cpc[c] = "receive" /\ req[c] = <<>> => got[c] \o (resp[c] \o unwritten[w]) \in AnswersTo(command(c).op)
      BY <2>1, <3>1 DEF Dialogue, Answered
    <3>6. <<>> \in Seq(Nat)
      OBVIOUS
    <3> QED
      BY <2>2, <2>4, <3>2, <3>3, <3>4, <3>5, <3>6
  <2> QED
    BY <2>3, <2>4
<1> QED
  BY <1>1, InvHolds, PTL

-----------------------------------------------------------------------------
(* The refinement of Conversation. *)

PhaseTable ==
  \A c \in Clients :
     /\ cpc[c] = "away" => Phase(c) = "away"
     /\ cpc[c] \in {"open_req", "open_resp", "hello"} => Phase(c) = "line"
     /\ cpc[c] = "ready" => Phase(c) = "idle"
     /\ cpc[c] = "receive" /\ req[c] # <<>> => Phase(c) = "asked"
     /\ cpc[c] = "receive" /\ req[c] = <<>> => Phase(c) = "executed"
     /\ cpc[c] = "gone" => Phase(c) = "over"

LEMMA Phases == PhaseTable
BY DEF PhaseTable, Phase

LEMMA NextPhases == PhaseTable'
BY Phases, PTL

LEMMA SamePhase ==
  ASSUME NEW c, cpc'[c] = cpc[c], req'[c] = req[c]
  PROVE  Phase(c)' = Phase(c)
BY DEF Phase

(* One client goes from one phase to another.                                *)
OneMoves(c, from, to) ==
  /\ Phase(c) = from /\ Phase(c)' = to
  /\ \A d \in Clients \ {c} : cpc'[d] = cpc[d] /\ req'[d] = req[d]

LEMMA MovesThere ==
  ASSUME NEW c \in Clients, NEW from, NEW to, OneMoves(c, from, to)
  PROVE  Promise!Moves(c, from, to)
<1>1. \A d \in Clients \ {c} : Phase(d)' = Phase(d)
  BY SamePhase DEF OneMoves
<1> QED
  BY <1>1 DEF OneMoves, Promise!Moves

(* Nobody's phase changes, and nothing is carried out.                       *)
NoneMoves ==
  /\ \A d \in Clients : Phase(d)' = Phase(d)
  /\ alive' = alive /\ served' = served

LEMMA NoneMovesThere == NoneMoves => UNCHANGED Promise!conversationVars
BY DEF NoneMoves, Promise!conversationVars

ConversationStep ==
  \/ NoneMoves
  \/ \E c \in Clients : Promise!Says(c) \/ Promise!Executes(c) \/ Promise!Dies(c)

(* What a client does is heard: it asks for a session, asks for something,   *)
(* returns, quits or dies.                                                   *)
LEMMA ClientConverses ==
  ASSUME IInv, NEW c \in Clients, Setup(c) \/ ClientStep(c) \/ Dies(c)
  PROVE  ConversationStep
<1>0. cpc \in [Clients -> Places] /\ req \in [Clients -> Seq(Requests \cup {Quit})]
      /\ alive \in [Clients -> BOOLEAN]
  BY DEF IInv, Types
<1>1. CASE Setup(c)
  <2>1. Dialogue(c)
    BY DEF IInv, Dialogues
  <2>2. alive[c] /\ cpc[c] = "away" /\ cpc'[c] = "open_req" /\ alive' = alive /\ served' = served
        /\ \A d \in Clients \ {c} : cpc'[d] = cpc[d] /\ req'[d] = req[d]
    BY <1>0, <1>1, <2>1 DEF Setup, CGoto, Dialogue, Quiet
  <2>3. OneMoves(c, "away", "line")
    BY <2>2, Phases, NextPhases DEF PhaseTable, OneMoves
  <2> QED
    BY <2>2, <2>3, MovesThere DEF Promise!Says, ConversationStep
<1>2. CASE ReadHello(c)
  <2>1. alive[c] /\ cpc[c] = "hello" /\ cpc'[c] = "ready" /\ alive' = alive /\ served' = served
        /\ \A d \in Clients \ {c} : cpc'[d] = cpc[d] /\ req'[d] = req[d]
    BY <1>0, <1>2 DEF ReadHello, CGoto
  <2>2. OneMoves(c, "line", "idle")
    BY <2>1, Phases, NextPhases DEF PhaseTable, OneMoves
  <2> QED
    BY <2>1, <2>2, MovesThere DEF Promise!Says, ConversationStep
<1>3. CASE Request(c)
  <2>1. alive[c] /\ cpc[c] = "ready" /\ cpc'[c] = "receive" /\ alive' = alive /\ served' = served
        /\ \A d \in Clients \ {c} : cpc'[d] = cpc[d] /\ req'[d] = req[d]
    BY <1>0, <1>3 DEF Request, HasNext, CGoto, Send
  <2>2. \E op : req'[c] = Append(req[c], op) /\ op \in Requests
    BY <1>0, <1>3 DEF Request, Send
  <2>3. req'[c] # <<>>
    <3>1. req[c] \in Seq(Requests \cup {Quit}) /\ Requests \subseteq Requests \cup {Quit}
      BY <1>0
    <3> QED
      BY <2>2, <3>1, AppendProperties
  <2>4. OneMoves(c, "idle", "asked")
    BY <2>1, <2>3, Phases, NextPhases DEF PhaseTable, OneMoves
  <2> QED
    BY <2>1, <2>4, MovesThere DEF Promise!Says, ConversationStep
<1>4. CASE Return(c)
  <2>1. alive[c] /\ cpc[c] = "receive" /\ cpc'[c] = "ready" /\ alive' = alive /\ served' = served
        /\ \A d \in Clients \ {c} : cpc'[d] = cpc[d] /\ req'[d] = req[d]
    BY <1>0, <1>4 DEF Return, CGoto
  <2>2. req[c] = <<>>
    BY <1>4, ReturnsEmpty
  <2>3. OneMoves(c, "executed", "idle")
    BY <2>1, <2>2, Phases, NextPhases DEF PhaseTable, OneMoves
  <2> QED
    BY <2>1, <2>3, MovesThere DEF Promise!Says, ConversationStep
<1>5. CASE SendQuit(c)
  <2>1. alive[c] /\ cpc[c] = "ready" /\ cpc'[c] = "gone" /\ alive' = alive /\ served' = served
        /\ \A d \in Clients \ {c} : cpc'[d] = cpc[d] /\ req'[d] = req[d]
    BY <1>0, <1>5 DEF SendQuit, Send, CGoto
  <2>2. OneMoves(c, "idle", "over")
    BY <2>1, Phases, NextPhases DEF PhaseTable, OneMoves
  <2> QED
    BY <2>1, <2>2, MovesThere DEF Promise!Says, ConversationStep
<1>6. CASE Skip(c) \/ Receive(c)
  <2>1. NoneMoves
    BY <1>6, SamePhase DEF Skip, Receive, NoneMoves
  <2> QED
    BY <2>1 DEF ConversationStep
<1>7. CASE ExitEarly(c) \/ Dies(c)
  <2>1. alive[c] /\ cpc[c] \notin {"away", "gone"} /\ alive' = [alive EXCEPT ![c] = FALSE]
        /\ cpc' = cpc /\ req' = req /\ served' = served
    BY <1>7 DEF ExitEarly, Dies
  <2>2. Phase(c) \notin {"away", "over"}
    BY <1>0, <2>1, Phases DEF PhaseTable, Places
  <2>3. \A d \in Clients : Phase(d)' = Phase(d)
    BY <2>1, SamePhase
  <2>4. Promise!Dies(c)
    BY <2>1, <2>2, <2>3 DEF Promise!Dies
  <2> QED
    BY <2>4 DEF ConversationStep
<1> QED
  BY <1>1, <1>2, <1>3, <1>4, <1>5, <1>6, <1>7 DEF ClientStep

(* What a thread does changes nothing for a client, except that a request    *)
(* is carried out, and then exactly one that was asked.                      *)
LEMMA ThreadConverses ==
  ASSUME IInv, NEW w \in Workers, StartSession(w) \/ SessionStep(w) \/ SessionFault(w)
  PROVE  ConversationStep
<1>0. cpc \in [Clients -> Places] /\ req \in [Clients -> Seq(Requests \cup {Quit})]
      /\ served \in [Clients -> Nat] /\ client[w] \in Clients \cup {NULL}
  BY DEF IInv, Types
<1>1. CASE StartSession(w)
  <2>1. NoneMoves
    BY <1>1, SamePhase DEF StartSession, clientVars, NoneMoves
  <2> QED
    BY <2>1 DEF ConversationStep
<1>2. CASE SessionStep(w) \/ SessionFault(w)
  <2>. PICK c \in Clients : c = client[w]
    BY <1>0, <1>2 DEF SessionStep, SessionFault
  <2>1. CASE Opens(w, "open_req", "open_resp") \/ Opens(w, "open_resp", "hello")
    <3>1. cpc[c] \in {"open_req", "open_resp"} /\ cpc'[c] \in {"open_resp", "hello"} /\ req' = req
          /\ alive' = alive /\ served' = served /\ \A d \in Clients \ {c} : cpc'[d] = cpc[d]
      BY <1>0, <2>1 DEF Opens, CGoto
    <3>2. Phase(c)' = Phase(c)
      BY <3>1, Phases, NextPhases DEF PhaseTable
    <3>3. NoneMoves
      BY <3>1, <3>2, SamePhase DEF NoneMoves
    <3> QED
      BY <3>3 DEF ConversationStep
  <2>2. CASE Hello(w) \/ Write(w) \/ OpenFails(w)
    <3>1. cpc' = cpc /\ req' = req /\ alive' = alive /\ served' = served
      BY <2>2 DEF Hello, Write, OpenFails, EndSession, clientVars
    <3>2. NoneMoves
      BY <3>1, SamePhase DEF NoneMoves
    <3> QED
      BY <3>2 DEF ConversationStep
  <2>3. CASE ServeQuit(w)
    <3>1. cpc' = cpc /\ alive' = alive /\ served' = served /\ ReadsRequest(w) /\ Head(req[c]) = Quit
      BY <2>3 DEF ServeQuit, EndSession, clientVars
    <3>2. cpc[c] = "gone" /\ req' = [req EXCEPT ![c] = <<>>]
      BY <3>1, RequestRead DEF Requests, Quit
    <3>3. Phase(c)' = Phase(c)
      BY <3>1, <3>2, Phases, NextPhases DEF PhaseTable
    <3>4. \A d \in Clients \ {c} : req'[d] = req[d]
      BY <1>0, <3>2
    <3>5. NoneMoves
      BY <3>1, <3>3, <3>4, SamePhase DEF NoneMoves
    <3> QED
      BY <3>5 DEF ConversationStep
  <2>4. CASE Execute(w) \/ ServeNoMemory(w)
    <3>1. cpc' = cpc /\ alive' = alive /\ served' = [served EXCEPT ![c] = @ + 1]
          /\ ReadsRequest(w) /\ Head(req[c]) \in Requests
      BY <2>4 DEF Execute, ServeNoMemory, Counted, clientVars, Requests
    <3>2. cpc[c] = "receive" /\ req[c] # <<>> /\ req' = [req EXCEPT ![c] = <<>>]
      BY <3>1, RequestRead DEF Requests, Quit
    <3>3. req'[c] = <<>> /\ \A d \in Clients \ {c} : req'[d] = req[d]
      BY <1>0, <3>2
    <3>4. OneMoves(c, "asked", "executed")
      BY <3>1, <3>2, <3>3, Phases, NextPhases DEF PhaseTable, OneMoves
    <3>5. Promise!Executes(c)
      BY <3>1, <3>4, MovesThere DEF Promise!Executes
    <3> QED
      BY <3>5 DEF ConversationStep
  <2> QED
    BY <1>2, <2>1, <2>2, <2>3, <2>4 DEF SessionStep, SessionFault
<1> QED
  BY <1>1, <1>2

(* Pipes, threads and words implement the conversation: every request is     *)
(* carried out once, after it was asked and before its call returns,         *)
(* whatever is written in pieces and whoever dies (api.c:14-195,             *)
(* main_server.c:327-541).                                                   *)
THEOREM PipesConverse == Spec => ImplementsConversation
<1>1. Init => Promise!ConversationInit
  <2>. SUFFICES ASSUME Init PROVE Promise!ConversationInit
    OBVIOUS
  <2>1. \A c \in Clients : Phase(c) = "away"
    BY Phases DEF PhaseTable, Init
  <2> QED
    BY <2>1 DEF Init, Promise!ConversationInit
<1>2. ASSUME IInv, [Next]_emsVars
      PROVE  [\E c \in Clients : Promise!Says(c) \/ Promise!Executes(c) \/ Promise!Dies(c)]_(Promise!conversationVars)
  <2>1. ConversationStep
    <3>1. CASE UNCHANGED emsVars
      <4>1. NoneMoves
        BY <3>1, SamePhase DEF NoneMoves, emsVars, sessionVars, clientVars
      <4> QED
        BY <4>1 DEF ConversationStep
    <3> QED
      BY <1>2, <3>1, ClientConverses, ThreadConverses DEF Next
  <2>2. CASE NoneMoves
    BY <2>2, NoneMovesThere
  <2>3. CASE \E c \in Clients : Promise!Says(c) \/ Promise!Executes(c) \/ Promise!Dies(c)
    BY <2>3
  <2> QED
    BY <2>1, <2>2, <2>3 DEF ConversationStep
<1> QED
  BY <1>1, <1>2, InvHolds, PTL DEF Spec, ImplementsConversation, Promise!ConversationSpec
=============================================================================
