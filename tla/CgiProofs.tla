----------------------------- MODULE CgiProofs -----------------------------
(***************************************************************************)
(* The safety properties of execute_cgi, for any scripts, any capacity of  *)
(* the pipe, any size of the buffer and any number of descriptors.         *)
(***************************************************************************)
EXTENDS CgiProperties, TLAPS

LEMMA InitIInv == Init => IInv
<1>1. Init => foreign \in BOOLEAN
  BY Zenon DEF Init
<1> QED
  BY CgiAssumption, <1>1
     DEF Init, IInv, TypeOK, NoChildLeft, ReadsEnd, WholeOutput, OneLeftOpen, PipeInv, FdsInv

(* The server's side.                                                      *)
LEMMA ServerStep == IInv /\ (Call \/ Server) => IInv'
<1> SUFFICES ASSUME IInv, Call \/ Server PROVE IInv'
  OBVIOUS
<1> USE CgiAssumption DEF IInv, TypeOK, NoChildLeft, ReadsEnd, WholeOutput, OneLeftOpen,
                          PipeInv, FdsInv
<1>1. CASE Call
  <2>1. foreign' \in BOOLEAN
    BY <1>1, Zenon DEF Call
  <2> QED
    BY <1>1, <2>1 DEF Call
<1>2. CASE pipe_fails
  BY <1>2 DEF pipe_fails
<1>3. CASE make_pipe
  BY <1>3 DEF make_pipe
<1>4. CASE fork
  BY <1>4 DEF fork
<1>5. CASE close_write
  BY <1>5 DEF close_write
<1>6. CASE waitpid
  BY <1>6 DEF waitpid, Waited
<1>7. CASE read
  <2>1. foreign' \in BOOLEAN
    BY <1>7, Zenon DEF read
  <2> QED
    BY <1>7, <2>1 DEF read
<1>8. CASE return
  BY <1>8 DEF return, EndOfFile
<1> QED
  BY <1>1, <1>2, <1>3, <1>4, <1>5, <1>6, <1>7, <1>8 DEF Server

(* The side of the process it forks.                                       *)
LEMMA ChildStep == IInv /\ Child => IInv'
<1> SUFFICES ASSUME IInv, Child PROVE IInv'
  OBVIOUS
<1> USE CgiAssumption DEF IInv, TypeOK, NoChildLeft, ReadsEnd, WholeOutput, OneLeftOpen,
                          PipeInv, FdsInv
<1>1. CASE execve
  BY <1>1 DEF execve
<1>2. CASE execve_fails
  BY <1>2 DEF execve_fails
<1>3. CASE write
  BY <1>3 DEF write
<1>4. CASE exit
  BY <1>4 DEF exit
<1> QED
  BY <1>1, <1>2, <1>3, <1>4 DEF Child

(* The inductive invariant of Handler.cpp 104-153 holds in every state.    *)
THEOREM CgiInvariance == Spec => []IInv
<1>1. IInv /\ UNCHANGED vars => IInv'
  BY DEF IInv, TypeOK, NoChildLeft, ReadsEnd, WholeOutput, OneLeftOpen, PipeInv, FdsInv, vars
<1>2. IInv /\ [Next]_vars => IInv'
  BY <1>1, ServerStep, ChildStep DEF Next
<1> QED
  BY <1>2, InitIInv, PTL DEF Spec

(* Every variable keeps values of its kind.                                *)
THEOREM CgiTypeCorrect == Spec => []TypeOK
<1>1. IInv => TypeOK
  BY DEF IInv
<1> QED
  BY <1>1, CgiInvariance, PTL

(* No call of execute_cgi leaves a process behind, running or not waited   *)
(* for (Handler.cpp 119-136).                                              *)
THEOREM CgiReaped == Spec => []NoChildLeft
<1>1. IInv => NoChildLeft
  BY DEF IInv
<1> QED
  BY <1>1, CgiInvariance, PTL

(* When the reads begin nobody has the write end of the pipe open, so they *)
(* cannot block (Handler.cpp 135-149).                                     *)
THEOREM CgiReadsEnd == Spec => []ReadsEnd
<1>1. IInv => ReadsEnd
  BY DEF IInv
<1> QED
  BY <1>1, CgiInvariance, PTL

(* A call that returns has read all that the script wrote (Handler.cpp     *)
(* 136-149).                                                               *)
THEOREM CgiWhole == Spec => []WholeOutput
<1>1. IInv => WholeOutput
  BY DEF IInv
<1> QED
  BY <1>1, CgiInvariance, PTL

(* One descriptor of the server stays open for each call that returned     *)
(* (Handler.cpp 142, 146).                                                 *)
THEOREM CgiLeaks == Spec => []OneLeftOpen
<1>1. IInv => OneLeftOpen
  BY DEF IInv
<1> QED
  BY <1>1, CgiInvariance, PTL
=============================================================================
