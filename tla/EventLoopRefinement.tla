------------------------- MODULE EventLoopRefinement -------------------------
(***************************************************************************)
(* The event loop implements Conversations.  A connection is closed once   *)
(* it has left both the queue of its server and the descriptors, or the    *)
(* process has ended; it is parting and ending while a handler that gave   *)
(* it up has the send of _outBuf and the 204 before it; its response is    *)
(* due from the moment process made it ready until send_page_to_client     *)
(* has written it.                                                         *)
(***************************************************************************)
EXTENDS EventLoopProperties

Queued(c) == \E s \in Servers : c \in backlog[s]

stageOf(c) ==
  IF peer[c] = "away" THEN "away"
  ELSE IF Running /\ Queued(c) THEN "queued"
  ELSE IF Running /\ Held(c)
    THEN IF GivenUp(c) THEN IF pc = "last" THEN "parting" ELSE "ending"
         ELSE "held"
  ELSE "closed"

dueTo(c) ==
  /\ Running /\ Held(c) /\ client[c] # NULL
  /\ client[c].ex.state = "RS_READY"
  /\ ~Past(c)

C == INSTANCE Conversations WITH
       stage <- [c \in Conns |-> stageOf(c)],
       due   <- [c \in Conns |-> dueTo(c)],
       said  <- tx

(* Every behaviour of the loop is, connection by connection, one that      *)
(* Conversations allows (Server.cpp 88-196, Server_functions.cpp 195-206,  *)
(* Monitor.cpp 31-53).                                                     *)
ImplementsConversations == C!Spec
=============================================================================
