---------------------------- MODULE Conversation ----------------------------
(***************************************************************************)
(* What the server promises a client: it waits in line, is welcomed, and    *)
(* then every request it makes is carried out exactly once, after it was    *)
(* asked and before the answer, one at a time.  A client may die at any     *)
(* moment; what it has asked before may still be carried out.  There are no *)
(* pipes, threads or words here.                                            *)
(***************************************************************************)
EXTENDS Integers

CONSTANT Clients

VARIABLES phase, alive,
          executions   \* how many requests of each client were carried out

conversationVars == <<phase, alive, executions>>

ConversationInit ==
  /\ phase = [c \in Clients |-> "away"]
  /\ alive = [c \in Clients |-> TRUE]
  /\ executions = [c \in Clients |-> 0]

Moves(c, from, to) == phase[c] = from /\ phase' = [phase EXCEPT ![c] = to]

Says(c) ==
  /\ alive[c]
  /\ \/ Moves(c, "away", "line")
     \/ Moves(c, "line", "idle")
     \/ Moves(c, "idle", "asked")
     \/ Moves(c, "executed", "idle")
     \/ Moves(c, "idle", "over")
  /\ UNCHANGED <<alive, executions>>

Executes(c) ==
  /\ Moves(c, "asked", "executed")
  /\ executions' = [executions EXCEPT ![c] = @ + 1]
  /\ UNCHANGED alive

Dies(c) ==
  /\ alive[c] /\ phase[c] \notin {"away", "over"}
  /\ alive' = [alive EXCEPT ![c] = FALSE]
  /\ UNCHANGED <<phase, executions>>

ConversationSpec ==
  ConversationInit /\ [][\E c \in Clients : Says(c) \/ Executes(c) \/ Dies(c)]_conversationVars
=============================================================================
