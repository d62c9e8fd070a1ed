-------------------------------- MODULE Cgi --------------------------------
(***************************************************************************)
(* Handler::execute_cgi: the server, the process it forks, and the pipe    *)
(* between them, call after call.  The output of a script is counted, in   *)
(* units of any size; it is taken to hold no NUL.                          *)
(***************************************************************************)
EXTENDS Integers, FiniteSets

CONSTANTS
  Scripts,   \* bound: what may be asked: [runs : BOOLEAN, size : Nat]
  CAPACITY,  \* what the pipe holds
  BUFFER,    \* what one read takes
  MAX_FDS,   \* the descriptors the server may open
  MAX_CALLS  \* bound: the calls made

ASSUME CgiAssumption ==
  /\ Scripts \subseteq [runs : BOOLEAN, size : Nat] /\ Scripts # {}
  /\ CAPACITY \in Nat \ {0} /\ BUFFER \in Nat \ {0}
  /\ MAX_FDS \in Nat /\ MAX_CALLS \in Nat

VARIABLES
  pc,       \* the server; "idle" outside of execute_cgi, "thrown" out of it
  child,    \* the forked process
  script,   \* what it is asked to run
  pipe,     \* what is in the pipe
  writers,  \* who has the write end of the pipe open
  written,  \* history: what the script wrote
  str,      \* what of it execute_cgi has read
  foreign,  \* whether bytes the script did not write are among those read
  fds,      \* the descriptors open in the server
  calls

vars == <<pc, child, script, pipe, writers, written, str, foreign, fds, calls>>

-----------------------------------------------------------------------------
(* The server.                                                             *)

Call ==
  /\ pc = "idle" /\ calls < MAX_CALLS
  /\ calls' = calls + 1 /\ script' \in Scripts
  /\ written' = 0 /\ str' = 0 /\ foreign' = FALSE /\ pipe' = 0
  /\ pc' = "pipe"
  /\ UNCHANGED <<child, writers, fds>>

(* A pipe that cannot be made is answered by std::string(NULL), which      *)
(* throws; nothing catches it before the end of Start_all_servers.         *)
pipe_fails ==
  /\ pc = "pipe" /\ fds + 2 > MAX_FDS
  /\ pc' = "thrown"
  /\ UNCHANGED <<child, script, pipe, writers, written, str, foreign, fds, calls>>

make_pipe ==
  /\ pc = "pipe" /\ fds + 2 <= MAX_FDS
  /\ fds' = fds + 2 /\ writers' = {"server"}
  /\ pc' = "fork"
  /\ UNCHANGED <<child, script, pipe, written, str, foreign, calls>>

(* Returns at once when fork fails.                                        *)
faulty_fork ==
  /\ pc = "fork"
  /\ \/ child' = "forked" /\ writers' = writers \cup {"child"} /\ pc' = "close"
     \/ pc' = "idle" /\ UNCHANGED <<child, writers>>
  /\ UNCHANGED <<script, pipe, written, str, foreign, fds, calls>>

(* A fork that fails is treated as one that did not.                       *)
fork ==
  /\ pc = "fork"
  /\ \/ child' = "forked" /\ writers' = writers \cup {"child"}
     \/ UNCHANGED <<child, writers>>
  /\ pc' = "close"
  /\ UNCHANGED <<script, pipe, written, str, foreign, fds, calls>>

faulty_close ==
  /\ pc = "close" /\ pc' = "wait"
  /\ UNCHANGED <<child, script, pipe, writers, written, str, foreign, fds, calls>>

close_write ==
  /\ pc = "close"
  /\ writers' = writers \ {"server"} /\ fds' = fds - 1
  /\ pc' = "wait"
  /\ UNCHANGED <<child, script, pipe, written, str, foreign, calls>>

(* waitpid(0) returns when the child has ended, or at once without one.    *)
faulty_Waited == TRUE
Waited        == child \in {"none", "ended"}

waitpid ==
  /\ pc = "wait" /\ Waited
  /\ child' = IF child = "ended" THEN "none" ELSE child
  /\ pc' = "read"
  /\ UNCHANGED <<script, pipe, writers, written, str, foreign, fds, calls>>

(* What read put in the buffer is appended up to a NUL that nobody wrote:   *)
(* what follows it there, of an earlier read or of the stack, may come too. *)
read ==
  /\ pc = "read" /\ pipe > 0
  /\ LET bytes == IF pipe < BUFFER THEN pipe ELSE BUFFER IN
       pipe' = pipe - bytes /\ str' = str + bytes
  /\ foreign' \in {foreign, TRUE}
  /\ UNCHANGED <<pc, child, script, writers, written, fds, calls>>

(* The end of file; the read end is not closed on the way out.  The slip   *)
(* takes a read that did not fill the buffer for the last one.             *)
faulty_EndOfFile == pipe < BUFFER
EndOfFile        == pipe = 0 /\ writers = {}

return ==
  /\ pc = "read" /\ EndOfFile
  /\ pc' = "idle"
  /\ UNCHANGED <<child, script, pipe, writers, written, str, foreign, fds, calls>>

-----------------------------------------------------------------------------
(* The forked process.                                                     *)

execve ==
  /\ child = "forked" /\ script.runs
  /\ child' = "script"
  /\ UNCHANGED <<pc, script, pipe, writers, written, str, foreign, fds, calls>>

(* execute_cgi returns in the child too, which goes on as a second server. *)
execve_fails ==
  /\ child = "forked" /\ ~script.runs
  /\ child' = "server"
  /\ UNCHANGED <<pc, script, pipe, writers, written, str, foreign, fds, calls>>

write ==
  /\ child = "script" /\ written < script.size /\ pipe < CAPACITY
  /\ pipe' = pipe + 1 /\ written' = written + 1
  /\ UNCHANGED <<pc, child, script, writers, str, foreign, fds, calls>>

(* After its output or before.                                             *)
exit ==
  /\ child = "script"
  /\ child' = "ended" /\ writers' = writers \ {"child"}
  /\ UNCHANGED <<pc, script, pipe, written, str, foreign, fds, calls>>

-----------------------------------------------------------------------------

Server == \/ pipe_fails \/ make_pipe \/ fork \/ close_write
          \/ waitpid \/ read \/ return
Child  == execve \/ execve_fails \/ write \/ exit

Next == Call \/ Server \/ Child

Init ==
  /\ pc = "idle" /\ child = "none" /\ script \in Scripts
  /\ pipe = 0 /\ writers = {} /\ written = 0 /\ str = 0 /\ foreign = FALSE
  /\ fds = 0 /\ calls = 0

Spec == Init /\ [][Next]_vars

(* The scheduler runs both processes, and a script that has written all    *)
(* its output ends; requests owe nothing.                                  *)
FairSpec == /\ Spec /\ WF_vars(Server) /\ WF_vars(execve \/ execve_fails \/ write)
            /\ WF_vars(exit /\ written = script.size)
=============================================================================
