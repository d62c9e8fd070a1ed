----------------------------- MODULE MCEventLoop -----------------------------
(* EventLoop on small instances: model values, one timeout for all; the     *)
(* peers of Silent send nothing, the others up to CHUNKS chunks.            *)
EXTENDS EventLoopRefinement, TLC

CONSTANTS TIMEOUT, CHUNKS, Silent

MCChunks   == [c \in Conns |-> IF c \in Silent THEN 0 ELSE CHUNKS]
MCTimeouts == [s \in Servers |-> TIMEOUT]
Symmetric == Permutations(Fds) \cup Permutations(Conns) \cup Permutations(Addrs)
=============================================================================
