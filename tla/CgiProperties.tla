--------------------------- MODULE CgiProperties ---------------------------
(***************************************************************************)
(* What execute_cgi guarantees of its calls, and (at the end) what the     *)
(* repository says of the server that it breaks.                           *)
(***************************************************************************)
EXTENDS Cgi

(* Every variable has values of its kind.                                  *)
TypeOK ==
  /\ pc \in {"idle", "pipe", "fork", "close", "wait", "read", "thrown"}
  /\ child \in {"none", "forked", "script", "server", "ended"}
  /\ script \in [runs : BOOLEAN, size : Nat]
  /\ pipe \in Nat /\ pipe <= CAPACITY
  /\ writers \in SUBSET {"server", "child"}
  /\ written \in Nat /\ written <= script.size /\ str \in Nat /\ foreign \in BOOLEAN
  /\ fds \in Nat /\ fds <= MAX_FDS /\ calls \in Nat

(* No process outlives the call that forked it, running or not waited for: *)
(* outside of the fork and the wait the server has no child (Handler.cpp   *)
(* 119-136).                                                               *)
NoChildLeft == pc \notin {"close", "wait"} => child = "none"

(* The reads cannot block: nobody has the write end of the pipe open any   *)
(* more when they begin (Handler.cpp 135-149).                             *)
ReadsEnd == pc = "read" => writers = {}

(* What execute_cgi returns has all that the script wrote, although it is  *)
(* read only when the script has ended (Handler.cpp 136-149).              *)
WholeOutput == pc = "idle" => str = written

(* A call that returns leaves one descriptor open, the read end of its     *)
(* pipe, and no more (Handler.cpp 135, 142, 146 against 150).              *)
OneLeftOpen == pc = "idle" => fds = calls

(* The inductive strengthening: nothing is lost in the pipe, and who has   *)
(* its write end open.                                                     *)
PipeInv ==
  /\ written = str + pipe
  /\ pc \in {"idle", "pipe"} => pipe = 0
  /\ "child" \in writers => child \notin {"none", "ended"}
  /\ "server" \in writers => pc \in {"fork", "close"}

FdsInv ==
  /\ pc \in {"pipe", "thrown"} => fds + 1 = calls
  /\ pc \in {"fork", "close"} => fds = calls + 1
  /\ pc \in {"wait", "read"} => fds = calls

IInv == TypeOK /\ NoChildLeft /\ ReadsEnd /\ WholeOutput /\ OneLeftOpen /\ PipeInv /\ FdsInv

(* A call for a script that runs and whose output fits in the pipe comes   *)
(* back (or throws).                                                       *)
Calling == pc \notin {"idle", "thrown"}
Returns == (Calling /\ script.runs /\ script.size <= CAPACITY) ~> ~Calling

-----------------------------------------------------------------------------
(* Said by the repository, and refuted by what the code does.              *)

(* README.md 14, "non blocking server": no script, whatever it writes,     *)
(* holds the only thread of the server for good.                           *)
NonBlocking == (Calling /\ script.runs) ~> ~Calling
=============================================================================
