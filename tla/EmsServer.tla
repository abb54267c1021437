----------------------------- MODULE EmsServer ------------------------------
(***************************************************************************)
(* Clients and session threads of proj2 together: clients wait in the line  *)
(* that the server's queue promises (ClientLine, implemented by             *)
(* SessionQueue) and then talk to a session thread (proj2/client/api.c and  *)
(* main_client.c against proj2/server/main_server.c:327-541).  Each client  *)
(* has a FIFO for its requests and one for the answers.  A request is       *)
(* written by one write and fits into the empty FIFO.  An answer is a       *)
(* sequence of 4-byte words that safe_write and safe_read (common/io.c)     *)
(* pass on in pieces; a size_t has two.  Of the store, whose inside is      *)
(* ServerEvents, there is what decides whether a call returns: is there an  *)
(* event, and has a LIST left the list's read lock behind.                  *)
(***************************************************************************)
EXTENDS ClientLine, Integers, FiniteSets

CONSTANTS Scripts,      \* what the clients' job files hold: functions to sequences of commands
          NoFile,       \* in place of one: a job file that cannot be opened
          RespRoom,     \* how many words a response FIFO holds
          MaxFaults     \* bound: deaths of clients, failing opens and mallocs

ASSUME SessionAssumption ==
  /\ \A f \in Scripts : \A c \in Clients : f[c] = NoFile \/ Len(f[c]) \in Nat
  /\ NULL \notin Clients \cup Workers
  /\ RespRoom \in Nat \ {0} /\ MaxFaults \in Nat

VARIABLES script,       \* script[c]: the commands of client c
          cpc, alive,   \* where client c is, and whether its process is there
          fetched,      \* how many commands it has fetched
          got,          \* the words of the answer it has read so far
          req, resp,    \* the two FIFOs of a client
          spc,          \* where thread w is in its session
          unwritten,    \* what it still has to write
          stored,       \* the store holds an event
          kept,         \* a LIST has returned with the list's read lock
          served,       \* ghost: how many requests of c were carried out
          faults        \* what is left of MaxFaults

clientVars  == <<script, cpc, alive, fetched, got>>
threadVars  == <<spc, unwritten>>
storeVars   == <<stored, kept>>
sessionVars == <<clientVars, req, resp, threadVars, storeVars, served, faults>>
emsVars     == <<lineVars, sessionVars>>

Requests == {"create", "reserve", "show", "list"}
Quit     == "quit"

Init ==
  /\ LineInit
  /\ script \in Scripts
  /\ cpc = [c \in Clients |-> "away"] /\ alive = [c \in Clients |-> TRUE]
  /\ fetched = [c \in Clients |-> 0] /\ got = [c \in Clients |-> <<>>]
  /\ req = [c \in Clients |-> <<>>] /\ resp = [c \in Clients |-> <<>>]
  /\ spc = [w \in Workers |-> "none"] /\ unwritten = [w \in Workers |-> <<>>]
  /\ stored = FALSE /\ kept = FALSE
  /\ served = [c \in Clients |-> 0] /\ faults = MaxFaults

(* A response FIFO has a reader. *)
Reads(c) == alive[c] /\ cpc[c] # "gone"

Fault == faults > 0 /\ faults' = faults - 1

-----------------------------------------------------------------------------
(* Answers. *)

(* What the store may answer: `ret`, and for SHOW and LIST without an error  *)
(* the sizes and the data: here one seat, no event or one.                   *)
AnswersTo(op) ==
  CASE op \in {"create", "reserve"} -> {<<0>>, <<1>>}
    [] op = "show" -> {<<1>>, <<0, 1, 0, 1, 0, 1>>}
    [] op = "list" -> {<<1>>, <<0, 0, 0>>, <<0, 1, 0, 1>>}

(* Mutant of Due: the client goes on after `ret`. *)
DueIsRet(op, words) == 1

(* How many words the client wants, from the ones it has: a size says how    *)
(* many follow.                                                              *)
Due(op, words) ==
  CASE op \in {"create", "reserve"} \/ words = <<>> \/ (words # <<>> /\ words[1] # 0) -> 1
    [] op = "show" /\ Len(words) \in 1 .. 4 /\ words[1] = 0 -> 5
    [] op = "show" /\ Len(words) > 4 /\ words[1] = 0 -> 5 + words[2] * words[4]
    [] op = "list" /\ Len(words) \in 1 .. 2 /\ words[1] = 0 -> 3
    [] op = "list" /\ Len(words) > 2 /\ words[1] = 0 -> 3 + words[2]

-----------------------------------------------------------------------------
(* The client (main_client.c, api.c). *)

CGoto(c, label) == cpc' = [cpc EXCEPT ![c] = label]

(* The SETUP message, and the place in the line it gives; main has no place  *)
(* for a client when malloc fails (main_server.c:222-228).                   *)
Setup(c) ==
  /\ cpc[c] = "away"
  /\ \/ Join(c) /\ UNCHANGED faults
     \/ Fault /\ UNCHANGED lineVars
  /\ CGoto(c, "open_req")
  /\ UNCHANGED <<script, alive, fetched, got, req, resp, threadVars, storeVars, served>>

ReadHello(c) ==
  /\ alive[c] /\ cpc[c] = "hello" /\ resp[c] # <<>>
  /\ resp' = [resp EXCEPT ![c] = Tail(@)]
  /\ CGoto(c, "ready")
  /\ UNCHANGED <<lineVars, script, alive, fetched, got, req, threadVars, storeVars, served, faults>>

(* A job file that cannot be opened: exit without a QUIT.                    *)
ExitEarly(c) ==
  /\ alive[c] /\ cpc[c] = "ready" /\ script[c] = NoFile
  /\ alive' = [alive EXCEPT ![c] = FALSE]
  /\ UNCHANGED <<lineVars, script, cpc, fetched, got, req, resp, threadVars, storeVars, served, faults>>

HasNext(c) == alive[c] /\ cpc[c] = "ready" /\ script[c] # NoFile /\ fetched[c] < Len(script[c])
command(c) == script[c][fetched[c]]

Send(c, op) == req' = [req EXCEPT ![c] = Append(@, op)]

(* Mutant of Request: the client does not wait for the answer. *)
RequestOnly(c) ==
  /\ HasNext(c)
  /\ fetched' = [fetched EXCEPT ![c] = @ + 1]
  /\ script[c][fetched[c] + 1].op \in Requests
  /\ Send(c, script[c][fetched[c] + 1].op)
  /\ UNCHANGED <<lineVars, script, cpc, alive, got, resp, threadVars, storeVars, served, faults>>

Request(c) ==
  /\ HasNext(c)
  /\ fetched' = [fetched EXCEPT ![c] = @ + 1]
  /\ script[c][fetched[c] + 1].op \in Requests
  /\ Send(c, script[c][fetched[c] + 1].op)
  /\ CGoto(c, "receive")
  /\ UNCHANGED <<lineVars, script, alive, got, resp, threadVars, storeVars, served, faults>>

(* WAIT, HELP, an empty or a wrong line: nothing reaches the server.         *)
Skip(c) ==
  /\ HasNext(c)
  /\ script[c][fetched[c] + 1].op \notin Requests
  /\ fetched' = [fetched EXCEPT ![c] = @ + 1]
  /\ UNCHANGED <<lineVars, script, cpc, alive, got, req, resp, threadVars, storeVars, served, faults>>

Receive(c) ==
  /\ alive[c] /\ cpc[c] = "receive"
  /\ Len(got[c]) < Due(command(c).op, got[c]) /\ resp[c] # <<>>
  /\ got' = [got EXCEPT ![c] = Append(@, Head(resp[c]))]
  /\ resp' = [resp EXCEPT ![c] = Tail(@)]
  /\ UNCHANGED <<lineVars, script, cpc, alive, fetched, req, threadVars, storeVars, served, faults>>

Return(c) ==
  /\ alive[c] /\ cpc[c] = "receive"
  /\ Len(got[c]) = Due(command(c).op, got[c])
  /\ got' = [got EXCEPT ![c] = <<>>]
  /\ CGoto(c, "ready")
  /\ UNCHANGED <<lineVars, script, alive, fetched, req, resp, threadVars, storeVars, served, faults>>

(* The end of the file: ems_quit writes and closes, and waits for nothing.   *)
SendQuit(c) ==
  /\ alive[c] /\ cpc[c] = "ready" /\ script[c] # NoFile /\ fetched[c] = Len(script[c])
  /\ Send(c, Quit)
  /\ CGoto(c, "gone")
  /\ UNCHANGED <<lineVars, script, alive, fetched, got, resp, threadVars, storeVars, served, faults>>

ClientStep(c) ==
  ReadHello(c) \/ ExitEarly(c) \/ Request(c) \/ Skip(c) \/ Receive(c) \/ Return(c) \/ SendQuit(c)

(* A client is killed: its ends of the FIFOs are closed, their names stay.   *)
Dies(c) ==
  /\ alive[c] /\ cpc[c] \notin {"away", "gone"} /\ Fault
  /\ alive' = [alive EXCEPT ![c] = FALSE]
  /\ UNCHANGED <<lineVars, script, cpc, fetched, got, req, resp, threadVars, storeVars, served>>

-----------------------------------------------------------------------------
(* The session thread (threads_function). *)

SGoto(w, label) == spc' = [spc EXCEPT ![w] = label]

StartSession(w) ==
  /\ Serve(w)
  /\ SGoto(w, "open_req")
  /\ UNCHANGED <<clientVars, req, resp, unwritten, storeVars, served, faults>>

(* An open blocks until the other side opens too: both go on together.       *)
Opens(w, from, to) ==
  /\ spc[w] = from /\ cpc[client[w]] = from /\ alive[client[w]]
  /\ SGoto(w, to) /\ CGoto(client[w], to)
  /\ UNCHANGED <<lineVars, script, alive, fetched, got, req, resp, unwritten,
                 storeVars, served, faults>>

(* Back to the queue.                                                        *)
EndSession(w) ==
  /\ Leave(w)
  /\ SGoto(w, "none") /\ unwritten' = [unwritten EXCEPT ![w] = <<>>]
  /\ UNCHANGED <<clientVars, resp, storeVars, served>>

(* The client stays in its open; a request pipe that is open already is left *)
(* open.                                                                     *)
OpenFails(w) ==
  /\ spc[w] \in {"open_req", "open_resp"} /\ Fault
  /\ EndSession(w)
  /\ UNCHANGED req

(* The first word is the session_id; what it is makes no difference to       *)
(* anybody.  SIGPIPE is ignored: a write without a reader is an error.       *)
Hello(w) ==
  /\ spc[w] = "hello"
  /\ \/ /\ Reads(client[w])
        /\ resp' = [resp EXCEPT ![client[w]] = Append(@, 0)]
        /\ SGoto(w, "serve")
        /\ UNCHANGED <<lineVars, clientVars, unwritten, storeVars, served>>
     \/ ~Reads(client[w]) /\ EndSession(w)
  /\ UNCHANGED <<req, faults>>

(* The next request, when the answer before it is written.  Without one      *)
(* safe_read waits, or loops on end-of-file for ever.                        *)
ReadsRequest(w) ==
  /\ spc[w] = "serve" /\ unwritten[w] = <<>> /\ req[client[w]] # <<>>
  /\ req' = [req EXCEPT ![client[w]] = Tail(@)]

Counted(w) == served' = [served EXCEPT ![client[w]] = @ + 1]

(* One call of the store.  There is no answer without an error from a store  *)
(* without an event, and `answer` 0, 0, 0 is a LIST of such a store.  That   *)
(* LIST, like one that runs out of memory, keeps the read lock of the list;  *)
(* CREATE needs the write lock, waits for ever then and stays in `req`.      *)
(* The other calls take the read lock, which a waiting writer does not stop. *)
StoreCall(op, answer) ==
  \/ /\ op = "create" /\ ~kept
     /\ stored' = (stored \/ answer = <<0>>)
     /\ UNCHANGED kept
  \/ /\ op \in {"reserve", "show"} /\ (stored \/ answer = <<1>>)
     /\ UNCHANGED storeVars
  \/ /\ op = "list" /\ (answer = <<0, 1, 0, 1>> => stored) /\ (answer = <<0, 0, 0>> => ~stored)
     /\ kept' = (kept \/ answer # <<0, 1, 0, 1>>)
     /\ UNCHANGED stored

(* Mutant of Execute: of an answer without data only `ret` is written. *)
ExecuteRetOnly(w) ==
  /\ ReadsRequest(w) /\ Head(req[client[w]]) \in Requests
  /\ \E answer \in AnswersTo(Head(req[client[w]])) :
       /\ StoreCall(Head(req[client[w]]), answer)
       /\ unwritten' = [unwritten EXCEPT ![w] = IF Len(answer) = 3 THEN <<answer[1]>> ELSE answer]
  /\ Counted(w)
  /\ UNCHANGED <<lineVars, clientVars, resp, spc, faults>>

Execute(w) ==
  /\ ReadsRequest(w) /\ Head(req[client[w]]) \in Requests
  /\ \E answer \in AnswersTo(Head(req[client[w]])) :
       /\ StoreCall(Head(req[client[w]]), answer)
       /\ unwritten' = [unwritten EXCEPT ![w] = answer]
  /\ Counted(w)
  /\ UNCHANGED <<lineVars, clientVars, resp, spc, faults>>

(* ems_show or ems_list_events has no memory for its error_return, before    *)
(* it takes a lock, and returns NULL: no answer, the pipes stay open.        *)
ServeNoMemory(w) ==
  /\ ReadsRequest(w) /\ Head(req[client[w]]) \in {"show", "list"} /\ Fault
  /\ Leave(w)
  /\ SGoto(w, "none") /\ Counted(w)
  /\ UNCHANGED <<clientVars, resp, unwritten, storeVars>>

(* Mutant of ServeQuit: the loop is not left. *)
ServeQuitStays(w) ==
  /\ ReadsRequest(w) /\ Head(req[client[w]]) = Quit
  /\ UNCHANGED <<lineVars, clientVars, resp, spc, unwritten, storeVars, served, faults>>

ServeQuit(w) ==
  /\ ReadsRequest(w) /\ Head(req[client[w]]) = Quit
  /\ EndSession(w)
  /\ UNCHANGED faults

Write(w) ==
  /\ spc[w] = "serve" /\ unwritten[w] # <<>>
  /\ \/ /\ Reads(client[w]) /\ Len(resp[client[w]]) < RespRoom
        /\ resp' = [resp EXCEPT ![client[w]] = Append(@, Head(unwritten[w]))]
        /\ unwritten' = [unwritten EXCEPT ![w] = Tail(@)]
        /\ UNCHANGED <<lineVars, clientVars, spc, storeVars, served>>
     \/ ~Reads(client[w]) /\ EndSession(w)
  /\ UNCHANGED <<req, faults>>

SessionStep(w) ==
  /\ client[w] # NULL
  /\ \/ Opens(w, "open_req", "open_resp") \/ Opens(w, "open_resp", "hello")
     \/ Hello(w) \/ Execute(w) \/ ServeQuit(w) \/ Write(w)

SessionFault(w) == client[w] # NULL /\ (OpenFails(w) \/ ServeNoMemory(w))

-----------------------------------------------------------------------------
Next ==
  \/ \E c \in Clients : Setup(c) \/ ClientStep(c) \/ Dies(c)
  \/ \E w \in Workers : StartSession(w) \/ SessionStep(w) \/ SessionFault(w)

Spec == Init /\ [][Next]_emsVars

(* Every process and thread that can run does run; nobody has to connect,    *)
(* and no fault has to happen.  That a free thread takes the next client is  *)
(* what SessionQueue shows of the queue (ClientIsServed).                    *)
FairSpec ==
  /\ Spec
  /\ \A w \in Workers : WF_emsVars(StartSession(w) \/ SessionStep(w))
  /\ \A c \in Clients : WF_emsVars(ClientStep(c))

-----------------------------------------------------------------------------
(* Properties *)

(* Client, thread and FIFO have their types: a client never has two requests *)
(* on their way, a FIFO never holds more than it has room for.               *)
TypeOK ==
  /\ line \in Seq(Clients) /\ client \in [Workers -> Clients \cup {NULL}]
  /\ cpc \in [Clients -> {"away", "open_req", "open_resp", "hello", "ready", "receive", "gone"}]
  /\ alive \in [Clients -> BOOLEAN]
  /\ \A c \in Clients :
       /\ fetched[c] \in Nat /\ served[c] \in 0 .. fetched[c]
       /\ script[c] # NoFile => fetched[c] <= Len(script[c])
       /\ Len(req[c]) <= 1 /\ Len(resp[c]) <= RespRoom
  /\ spc \in [Workers -> {"none", "open_req", "open_resp", "hello", "serve"}]
  /\ stored \in BOOLEAN /\ kept \in BOOLEAN
  /\ faults \in 0 .. MaxFaults

Serving(c)   == {w \in Workers : client[w] = c}
Abandoned(c) == cpc[c] \in {"open_req", "open_resp", "hello", "ready", "receive"} /\ Serving(c) = {}

(* What a client has read of an answer, what is in its FIFO and what its     *)
(* thread has yet to write are together one whole answer to its request;     *)
(* between two calls nothing is left of the one before (ems_create,  *)
(* ems_reserve, ems_show and ems_list_events of api.c read exactly what        *)
(* main_server.c:427, 455, 485-503 and 516-534 write).                         *)
Left(c) == resp[c] \o (IF Serving(c) = {} THEN <<>> ELSE unwritten[CHOOSE w \in Serving(c) : TRUE])
AnswersAreWhole ==
  \A c \in Clients :
    alive[c] =>
      /\ cpc[c] = "ready" => Left(c) = <<>>
      /\ cpc[c] = "receive" =>
           LET words == got[c] \o Left(c)
           IN  IF req[c] # <<>> \/ Serving(c) = {} THEN words = <<>>
               ELSE words \in AnswersTo(command(c).op)

Phase(c) ==
  CASE cpc[c] = "away" -> "away"
    [] cpc[c] \in {"open_req", "open_resp", "hello"} -> "line"
    [] cpc[c] = "ready" -> "idle"
    [] cpc[c] = "receive" /\ req[c] # <<>> -> "asked"
    [] cpc[c] = "receive" /\ req[c] = <<>> -> "executed"
    [] cpc[c] = "gone" -> "over"

Promise == INSTANCE Conversation WITH phase <- [c \in Clients |-> Phase(c)], executions <- served

(* Every request is carried out exactly once, after it was asked and before  *)
(* its call returns, whatever pipes and threads do and whoever dies.         *)
ImplementsConversation == Promise!ConversationSpec

(* A CREATE that waits for a lock nobody will release: some LIST found the   *)
(* store empty or had no memory (operations.c:300-326, run server_list_leak). *)
Stuck(c) == kept /\ req[c] = <<"create">>

(* A call returns whatever other clients do, unless the client's own process *)
(* dies, its thread leaves it for lack of memory (main_server.c:476-481), or *)
(* it is a CREATE behind a kept read lock.  Nothing else can hold it up: not *)
(* a full FIFO, a client that died or left, nor another CREATE that waits.   *)
CallsAreAnswered ==
  \A c \in Clients :
    cpc[c] = "receive" ~> (cpc[c] # "receive" \/ ~alive[c] \/ Abandoned(c) \/ Stuck(c))

(* Without faults every client that connects gets to its QUIT, also when     *)
(* there are more clients than threads: sessions end and threads come back.  *)
(* Excepted are a client whose own CREATE waits behind a kept read lock, and *)
(* the clients in line when every thread is in such a CREATE: one that waits *)
(* takes its thread with it and nothing else.                                *)
ClientsFinish ==
  \A c \in Clients :
    cpc[c] = "open_req" ~>
      \/ cpc[c] = "gone" \/ Stuck(c)
      \/ \A w \in Workers : client[w] # NULL /\ Stuck(client[w])
      \/ faults < MaxFaults \/ \E d \in Clients : script[d] = NoFile

(* main_server.c:545 "LIBERTA A SESSAO DO CLIENTE E VOLTA A ESPERAR POR UM   *)
(* NOVO CLIENTE": a thread in a session comes back to the queue.             *)
ThreadsComeBack == \A w \in Workers : client[w] # NULL ~> client[w] = NULL
=============================================================================
