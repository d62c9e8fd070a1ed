---------------------------- MODULE Conversations ----------------------------
(***************************************************************************)
(* What the server promises of its connections, whatever the loop does to  *)
(* keep it: a connection is accepted once, is spoken to only while it is   *)
(* open, gets one response for each request that became ready, and ends    *)
(* with at most an error (or the response that was due) and a farewell,    *)
(* any of which may be cut short or not be said at all.                    *)
(***************************************************************************)
EXTENDS Sequences

CONSTANTS Conns

VARIABLES
  stage,  \* "away", "queued", "held", "parting", "ending" or "closed"
  due,    \* whether a response is ready and has not been written
  said    \* what was written to the connection

vars == <<stage, due, said>>

Say(c, words) == \E w \in words : said' = [said EXCEPT ![c] = Append(@, w)]

Arrive(c) ==
  /\ stage[c] = "away"
  /\ stage' = [stage EXCEPT ![c] = "queued"]
  /\ UNCHANGED <<due, said>>

Accept(c) ==
  /\ stage[c] = "queued"
  /\ stage' = [stage EXCEPT ![c] = "held"]
  /\ UNCHANGED <<due, said>>

Prepare(c) ==
  /\ stage[c] = "held" /\ ~due[c]
  /\ due' = [due EXCEPT ![c] = TRUE]
  /\ UNCHANGED <<stage, said>>

(* The response that is due is written, the whole of it or what has room.  *)
Answer(c) ==
  /\ stage[c] = "held" /\ due[c]
  /\ due' = [due EXCEPT ![c] = FALSE]
  /\ Say(c, {"page", "cut"})
  /\ UNCHANGED stage

(* The bytes of the file follow the response, and nothing else.            *)
SayAfter(c, words) ==
  /\ ~due[c]
  /\ said[c] # <<>> /\ said[c][Len(said[c])] \in {"page", "cut"}
  /\ Say(c, words)
  /\ UNCHANGED due

Attach(c) == stage[c] = "held" /\ SayAfter(c, {"file", "cut"}) /\ UNCHANGED stage

(* A connection that is given up while it is read has an answer before it, *)
(* to what was refused or what was ready; one that cannot be written to    *)
(* has the farewell alone, and perhaps a part of its file behind it.       *)
GiveUp(c) ==
  /\ stage[c] = "held"
  /\ stage' = [stage EXCEPT ![c] = "parting"]
  /\ UNCHANGED due \/ due' = [due EXCEPT ![c] = FALSE]
  /\ UNCHANGED said

BreakOff(c) ==
  /\ stage[c] = "held"
  /\ stage' = [stage EXCEPT ![c] = "ending"]
  /\ \/ due' = [due EXCEPT ![c] = FALSE] /\ UNCHANGED said
     \/ SayAfter(c, {"cut"})

LastAnswer(c) ==
  /\ stage[c] = "parting"
  /\ stage' = [stage EXCEPT ![c] = "ending"]
  /\ due' = [due EXCEPT ![c] = FALSE]
  /\ \/ UNCHANGED said
     \/ Say(c, {IF due[c] THEN "page" ELSE "error", "cut"})

Farewell(c) ==
  /\ stage[c] = "ending"
  /\ stage' = [stage EXCEPT ![c] = "closed"]
  /\ UNCHANGED said \/ Say(c, {"204", "cut"})
  /\ UNCHANGED due

(* Connections are closed in silence: inactive ones, or all at the end.    *)
CloseSome(S) ==
  /\ \A c \in S : stage[c] \in {"queued", "held"}
  /\ stage' = [c \in Conns |-> IF c \in S THEN "closed" ELSE stage[c]]
  /\ due' = [c \in Conns |-> due[c] /\ c \notin S]
  /\ UNCHANGED said

Init ==
  /\ stage = [c \in Conns |-> "away"]
  /\ due = [c \in Conns |-> FALSE]
  /\ said = [c \in Conns |-> <<>>]

Next ==
  \/ \E c \in Conns : Arrive(c) \/ Accept(c) \/ Prepare(c) \/ Answer(c)
                        \/ Attach(c) \/ GiveUp(c) \/ BreakOff(c)
                        \/ LastAnswer(c) \/ Farewell(c)
  \/ \E S \in SUBSET Conns : CloseSome(S)

Spec == Init /\ [][Next]_vars
=============================================================================
