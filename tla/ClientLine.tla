----------------------------- MODULE ClientLine -----------------------------
(***************************************************************************)
(* What the server's client queue promises: a line of clients.  Whoever    *)
(* has asked for a session joins the end of the line once, and a session   *)
(* thread that becomes free serves the client at the front of it.          *)
(***************************************************************************)
EXTENDS Sequences

CONSTANTS Clients, Workers, NULL

VARIABLES line,      \* the clients that wait, in the order they asked
          client     \* client[w]: the client session thread w serves, or NULL

lineVars == <<line, client>>

InLine(c) == \E i \in DOMAIN line : line[i] = c

LineInit == line = <<>> /\ client = [w \in Workers |-> NULL]

Join(c) ==
  /\ ~InLine(c) /\ \A w \in Workers : client[w] # c
  /\ line' = Append(line, c)
  /\ UNCHANGED client

Serve(w) ==
  /\ line # <<>> /\ client[w] = NULL
  /\ client' = [client EXCEPT ![w] = Head(line)]
  /\ line' = Tail(line)

Leave(w) == client' = [client EXCEPT ![w] = NULL] /\ UNCHANGED line

LineNext ==
  \/ \E c \in Clients : Join(c)
  \/ \E w \in Workers : Serve(w) \/ Leave(w)

LineSpec == LineInit /\ [][LineNext]_lineVars
=============================================================================
